---------------------------- MODULE Spec2Model ----------------------------
(* A model of the AGS table view of diggy-vscode-ags: the document parser, *)
(* the position index and the table synchronisation engine                 *)
(* (src/src/extension.ts, src/src/table-view-provider.ts).                 *)
(*                                                                         *)
(* A line of text is a sequence of one-character strings, a buffer is a    *)
(* sequence of lines.  Line and character numbers are 0-based as in the    *)
(* source; the sequences of TLA+ are 1-based, so line n of a buffer is     *)
(* doc[n + 1].                                                             *)
EXTENDS Integers, Sequences, FiniteSets, TLC

(***************************************************************************)
(* Characters and strings                                                  *)
(***************************************************************************)
QUOTE == "\""
COMMA == ","
SPACE == " "

UpperLetters ==
  {"A","B","C","D","E","F","G","H","I","J","K","L","M",
   "N","O","P","Q","R","S","T","U","V","W","X","Y","Z"}
LowerToUpper ==
  [c \in {"a","b","c","d","e","f","g","h","i","j","k","l","m",
          "n","o","p","q","r","s","t","u","v","w","x","y","z"} |->
     CASE c = "a" -> "A" [] c = "b" -> "B" [] c = "c" -> "C" [] c = "d" -> "D"
       [] c = "e" -> "E" [] c = "f" -> "F" [] c = "g" -> "G" [] c = "h" -> "H"
       [] c = "i" -> "I" [] c = "j" -> "J" [] c = "k" -> "K" [] c = "l" -> "L"
       [] c = "m" -> "M" [] c = "n" -> "N" [] c = "o" -> "O" [] c = "p" -> "P"
       [] c = "q" -> "Q" [] c = "r" -> "R" [] c = "s" -> "S" [] c = "t" -> "T"
       [] c = "u" -> "U" [] c = "v" -> "V" [] c = "w" -> "W" [] c = "x" -> "X"
       [] c = "y" -> "Y" [] OTHER -> "Z"]
Digits == {"0","1","2","3","4","5","6","7","8","9"}

\* the i flag of the regular expressions: letters compare by their upper case
Upper(c) == IF c \in DOMAIN LowerToUpper THEN LowerToUpper[c] ELSE c

\* [A-Z0-9_] under the i flag
IdentChars == UpperLetters \cup Digits \cup {"_"}
IsIdentChar(c) == Upper(c) \in IdentChars

\* \s, and the characters String.prototype.trim removes
IsSpace(c) == c \in {" ", "\t"}

\* a value under a name: Let(v, LAMBDA x : e) is e with x standing for v
Let(v, f(_)) == f(v)

\* the characters of s from 0-based offset a (inclusive) to b (exclusive)
Slice(s, a, b) == SubSeq(s, a + 1, b)

RECURSIVE TrimLeft(_)
TrimLeft(s) ==
  IF s # <<>> /\ IsSpace(Head(s)) THEN TrimLeft(Tail(s)) ELSE s

RECURSIVE TrimRight(_)
TrimRight(s) ==
  IF s # <<>> /\ IsSpace(s[Len(s)]) THEN TrimRight(SubSeq(s, 1, Len(s) - 1)) ELSE s

\* String.prototype.trim
Trim(s) == TrimRight(TrimLeft(s))

\* the row keywords
KwGROUP == <<"G","R","O","U","P">>
KwHEADING == <<"H","E","A","D","I","N","G">>
KwUNIT == <<"U","N","I","T">>
KwTYPE == <<"T","Y","P","E">>
KwDATA == <<"D","A","T","A">>

\* s.match(/^"KW"/i): the line starts with the quoted keyword, in any case
MatchKeyword(s, kw) ==
  /\ Len(s) >= Len(kw) + 2
  /\ s[1] = QUOTE
  /\ \A k \in 1..Len(kw) : Upper(s[k + 1]) = kw[k]
  /\ s[Len(kw) + 2] = QUOTE

\* the 1-based position of the first c in s at or after position p, 0 if none
RECURSIVE IndexFrom(_, _, _)
IndexFrom(s, c, p) ==
  IF p > Len(s) THEN 0
  ELSE IF s[p] = c THEN p
  ELSE IndexFrom(s, c, p + 1)

\* the 1-based position of the first non-blank character at or after p
RECURSIVE SkipSpaces(_, _)
SkipSpaces(s, p) ==
  IF p <= Len(s) /\ IsSpace(s[p]) THEN SkipSpaces(s, p + 1) ELSE p

\* the 1-based position after the run of identifier characters that starts at p
RECURSIVE SkipIdent(_, _)
SkipIdent(s, p) ==
  IF p <= Len(s) /\ IsIdentChar(s[p]) THEN SkipIdent(s, p + 1) ELSE p

\* the match of a declaration whose name is any text without a double
\* quote
GroupMatchAnyName(s) ==
  IF ~MatchKeyword(s, KwGROUP) THEN <<>>
  ELSE Let(SkipSpaces(s, Len(KwGROUP) + 3), LAMBDA c :
       IF c > Len(s) \/ s[c] # COMMA THEN <<>>
       ELSE Let(SkipSpaces(s, c + 1), LAMBDA o :
            IF o > Len(s) \/ s[o] # QUOTE THEN <<>>
            ELSE Let(IndexFrom(s, QUOTE, o + 1), LAMBDA e :
                 IF e = 0 \/ e = o + 1 THEN <<>>
                 ELSE SubSeq(s, o + 1, e - 1))))

\* trimmed.match(/^"GROUP"\s*,\s*"([A-Z0-9_]+)"/i): the captured name, or
\* <<>> when the line does not match (a match never captures the empty name)
GroupMatch(s) ==
  IF ~MatchKeyword(s, KwGROUP) THEN <<>>
  ELSE Let(SkipSpaces(s, Len(KwGROUP) + 3), LAMBDA c :
       IF c > Len(s) \/ s[c] # COMMA THEN <<>>
       ELSE Let(SkipSpaces(s, c + 1), LAMBDA o :
            IF o > Len(s) \/ s[o] # QUOTE THEN <<>>
            ELSE Let(SkipIdent(s, o + 1), LAMBDA e :
                 IF e = o + 1 \/ e > Len(s) \/ s[e] # QUOTE THEN <<>>
                 ELSE SubSeq(s, o + 1, e - 1))))

(***************************************************************************)
(* Field Extractor                                                         *)
(***************************************************************************)
\* the contents between every two consecutive quotes from position p on, a
\* closing quote opening the next field
RECURSIVE FieldsOverlapping(_, _)
FieldsOverlapping(s, p) ==
  Let(IndexFrom(s, QUOTE, p), LAMBDA o :
  Let(IF o = 0 THEN 0 ELSE IndexFrom(s, QUOTE, o + 1), LAMBDA c :
  IF o = 0 \/ c = 0 THEN <<>>
  ELSE <<SubSeq(s, o + 1, c - 1)>> \o FieldsOverlapping(s, c)))

\* the matches of /"([^"]*?)"/g from 1-based position p on
RECURSIVE FieldsFrom(_, _)
FieldsFrom(s, p) ==
  Let(IndexFrom(s, QUOTE, p), LAMBDA o :
  Let(IF o = 0 THEN 0 ELSE IndexFrom(s, QUOTE, o + 1), LAMBDA c :
  IF o = 0 \/ c = 0 THEN <<>>
  ELSE <<SubSeq(s, o + 1, c - 1)>> \o FieldsFrom(s, c + 1)))

extractQuotedFields(line) == FieldsFrom(line, 1)

\* Array.prototype.slice(1)
Slice1(fields) == IF fields = <<>> THEN <<>> ELSE Tail(fields)

\* Array.prototype.indexOf, 0-based, -1 when absent
RECURSIVE IndexOfFrom(_, _, _)
IndexOfFrom(arr, x, k) ==
  IF k > Len(arr) THEN -1
  ELSE IF arr[k] = x THEN k - 1
  ELSE IndexOfFrom(arr, x, k + 1)

indexOf(arr, x) == IndexOfFrom(arr, x, 1)

(***************************************************************************)
(* Document Parser                                                         *)
(***************************************************************************)
\* An absent string (undefined) is the empty sequence: a group name is never
\* empty, and a version the parser stores is never empty.  An optional
\* group (ParsedGroup | null) is a sequence of no or one group.
Undefined == <<>>
Null == <<>>

NewGroup(name, i) ==
  [name |-> name, line |-> i, headings |-> <<>>, headingLine |-> -1,
   dataCount |-> 0, units |-> <<>>, types |-> <<>>, data |-> <<>>]

\* the mapping with the entry of the key removed, if any, and the group
\* appended: a key set again moves to the end
MapSetAtEnd(groups, g) ==
  Append(SelectSeq(groups, LAMBDA x : x.name # g.name), g)

\* the mapping with a new key put before the others
MapSetInFront(groups, g) ==
  IF \E k \in 1..Len(groups) : groups[k].name = g.name
    THEN [k \in 1..Len(groups) |->
            IF groups[k].name = g.name THEN g ELSE groups[k]]
    ELSE <<g>> \o groups

\* Map.prototype.set on the group mapping, kept as the sequence of its
\* values in key order: an existing key keeps its position
MapSet(groups, g) ==
  IF \E k \in 1..Len(groups) : groups[k].name = g.name
    THEN [k \in 1..Len(groups) |->
            IF groups[k].name = g.name THEN g ELSE groups[k]]
    ELSE Append(groups, g)

\* the position of the entry of a key in the mapping, 0 when absent
MapIndex(groups, name) ==
  IF \E k \in 1..Len(groups) : groups[k].name = name
    THEN CHOOSE k \in 1..Len(groups) : groups[k].name = name
    ELSE 0

MapHas(groups, name) == MapIndex(groups, name) # 0

MapGet(groups, name) == groups[MapIndex(groups, name)]

TRAN == <<"T","R","A","N">>
TRAN_AGS == <<"T","R","A","N","_","A","G","S">>

\* the branches with a line that matches no keyword read as a data row of
\* the current group
LineRoleOrData(cur, line) ==
  Let(Trim(line), LAMBDA trimmed :
  IF trimmed = <<>> THEN "blank"
  ELSE IF GroupMatch(trimmed) # <<>> THEN "group"
  ELSE IF MatchKeyword(trimmed, KwHEADING) /\ cur # Undefined THEN "heading"
  ELSE IF MatchKeyword(trimmed, KwUNIT) /\ cur # Undefined THEN "unit"
  ELSE IF MatchKeyword(trimmed, KwTYPE) /\ cur # Undefined THEN "type"
  ELSE IF cur # Undefined THEN "data"
  ELSE "none")

\* The branch one iteration of the loop of parseDocument takes on a line,
\* given the name of the group currentGroup refers to (Undefined before the
\* first declaration): "blank" for the continue on an empty trimmed line,
\* "none" when no branch is taken.
LineRole(cur, line) ==
  Let(Trim(line), LAMBDA trimmed :
  IF trimmed = <<>> THEN "blank"
  ELSE IF GroupMatch(trimmed) # <<>> THEN "group"
  ELSE IF MatchKeyword(trimmed, KwHEADING) /\ cur # Undefined THEN "heading"
  ELSE IF MatchKeyword(trimmed, KwUNIT) /\ cur # Undefined THEN "unit"
  ELSE IF MatchKeyword(trimmed, KwTYPE) /\ cur # Undefined THEN "type"
  ELSE IF MatchKeyword(trimmed, KwDATA) /\ cur # Undefined THEN "data"
  ELSE "none")

\* One iteration of the loop of parseDocument: st holds the mapping, the
\* name of the group currentGroup refers to and the version; i is the
\* 0-based line number.  The object currentGroup refers to is always the
\* entry of its name in the mapping, since only a declaration replaces an
\* entry and the declaration makes its group the current one.
ParseLine(st, line, i) ==
  Let(Trim(line), LAMBDA trimmed :
  Let(LineRole(st.currentGroup, line), LAMBDA role :
  Let(MapGet(st.groups, st.currentGroup), LAMBDA g :
  Let(extractQuotedFields(trimmed), LAMBDA fields :
  Let(indexOf(g.headings, TRAN_AGS), LAMBDA agsIndex :
  CASE role = "blank" -> st
    [] role = "group" ->
         Let(GroupMatch(trimmed), LAMBDA name :
         [st EXCEPT !.groups = MapSet(st.groups, NewGroup(name, i)),
                    !.currentGroup = name])
    [] role = "heading" ->
         [st EXCEPT !.groups = MapSet(st.groups,
            [g EXCEPT !.headingLine = i, !.headings = Slice1(fields)])]
    [] role = "unit" ->
         [st EXCEPT !.groups = MapSet(st.groups, [g EXCEPT !.units = Slice1(fields)])]
    [] role = "type" ->
         [st EXCEPT !.groups = MapSet(st.groups, [g EXCEPT !.types = Slice1(fields)])]
    [] role = "data" ->
         [st EXCEPT !.groups = MapSet(st.groups,
            [g EXCEPT !.data = Append(g.data, Slice1(fields)),
                      !.dataCount = g.dataCount + 1]),
                    !.version =
                      IF st.currentGroup = TRAN /\ agsIndex >= 0
                         /\ Len(fields) >= agsIndex + 2 /\ fields[agsIndex + 2] # <<>>
                        THEN fields[agsIndex + 2] ELSE st.version]
    [] OTHER -> st)))))

RECURSIVE ParseFrom(_, _, _)
ParseFrom(st, doc, i) ==
  IF i >= Len(doc) THEN st
  ELSE ParseFrom(ParseLine(st, doc[i + 1], i), doc, i + 1)

\* the ParsedDocument of a buffer
parseDocument(doc) ==
  Let(ParseFrom([groups |-> <<>>, currentGroup |-> Undefined, version |-> Undefined],
                doc, 0),
      LAMBDA st : [groups |-> st.groups, version |-> st.version])

(***************************************************************************)
(* Position Index                                                          *)
(***************************************************************************)
\* the loop keeping the last entry of the mapping whose line is at most the
\* queried line
RECURSIVE FindLastGroupFrom(_, _, _, _)
FindLastGroupFrom(groups, lineNumber, k, best) ==
  IF k > Len(groups) THEN best
  ELSE FindLastGroupFrom(groups, lineNumber, k + 1,
         IF groups[k].line <= lineNumber THEN <<groups[k]>> ELSE best)

\* the loop of findGroupForLine over the mapping from entry k on; best is
\* the entry kept so far
RECURSIVE FindGroupFrom(_, _, _, _)
FindGroupFrom(groups, lineNumber, k, best) ==
  IF k > Len(groups) THEN best
  ELSE FindGroupFrom(groups, lineNumber, k + 1,
         IF groups[k].line <= lineNumber
            /\ (best = Null \/ groups[k].line > best[1].line)
           THEN <<groups[k]>> ELSE best)

findGroupForLine(parsed, lineNumber) ==
  FindGroupFrom(parsed.groups, lineNumber, 1, Null)

\* the loop counting every comma before the offset, inside quotes or not
RECURSIVE ColumnFromAnyComma(_, _, _, _, _)
ColumnFromAnyComma(line, charPosition, i, column, inQuotes) ==
  IF ~(i < charPosition /\ i < Len(line)) THEN column
  ELSE ColumnFromAnyComma(line, charPosition, i + 1,
                          IF line[i + 1] = COMMA THEN column + 1 ELSE column,
                          inQuotes)

\* the loop of getColumnAtPosition from 0-based offset i on
RECURSIVE ColumnFrom(_, _, _, _, _)
ColumnFrom(line, charPosition, i, column, inQuotes) ==
  IF ~(i < charPosition /\ i < Len(line)) THEN column
  ELSE IF line[i + 1] = QUOTE
    THEN ColumnFrom(line, charPosition, i + 1, column, ~inQuotes)
  ELSE IF line[i + 1] = COMMA /\ ~inQuotes
    THEN ColumnFrom(line, charPosition, i + 1, column + 1, inQuotes)
  ELSE ColumnFrom(line, charPosition, i + 1, column, inQuotes)

getColumnAtPosition(line, charPosition) ==
  ColumnFrom(line, charPosition, 0, 0, FALSE)

(***************************************************************************)
(* Table Synchronisation Engine: line resolution and rendering             *)
(***************************************************************************)
\* the fixed slack of the re-scan window of getLineNumber, and the length
\* of the window of findFirstDataLine
Slack == 10
FirstDataWindow == 10

\* the loop of findFirstDataLine from line i on
RECURSIVE FirstDataFrom(_, _, _)
FirstDataFrom(doc, group, i) ==
  IF ~(i < Len(doc) /\ i < group.line + FirstDataWindow) THEN -1
  ELSE IF MatchKeyword(doc[i + 1], KwDATA) THEN i
  ELSE FirstDataFrom(doc, group, i + 1)

findFirstDataLine(doc, group) == FirstDataFrom(doc, group, group.line)

\* the loop of getLineNumber from line i on; acc holds unitLine, typeLine
\* and dataLines
RECURSIVE ScanFrom(_, _, _, _)
ScanFrom(doc, group, i, acc) ==
  IF ~(i < Len(doc) /\ i < group.line + group.dataCount + Slack) THEN acc
  ELSE IF MatchKeyword(doc[i + 1], KwUNIT) /\ acc.unitLine < 0
    THEN ScanFrom(doc, group, i + 1, [acc EXCEPT !.unitLine = i])
  ELSE IF MatchKeyword(doc[i + 1], KwTYPE) /\ acc.typeLine < 0
    THEN ScanFrom(doc, group, i + 1, [acc EXCEPT !.typeLine = i])
  ELSE IF MatchKeyword(doc[i + 1], KwDATA)
    THEN ScanFrom(doc, group, i + 1,
                  [acc EXCEPT !.dataLines = Append(acc.dataLines, i)])
  ELSE IF MatchKeyword(doc[i + 1], KwGROUP) /\ i > group.line
    THEN acc
  ELSE ScanFrom(doc, group, i + 1, acc)

\* dataLines read with a 1-based row index
DataLineAtOneBased(dataLines, rowIndex) ==
  IF rowIndex >= 1 /\ rowIndex <= Len(dataLines) THEN dataLines[rowIndex] ELSE -1

\* dataLines read with the row index brought into the range of its indices
DataLineAtClamped(dataLines, rowIndex) ==
  IF dataLines = <<>> THEN -1
  ELSE IF rowIndex < 0 THEN dataLines[1]
  ELSE IF rowIndex >= Len(dataLines) THEN dataLines[Len(dataLines)]
  ELSE dataLines[rowIndex + 1]

\* dataLines[rowIndex] ?? -1
DataLineAt(dataLines, rowIndex) ==
  IF rowIndex >= 0 /\ rowIndex < Len(dataLines) THEN dataLines[rowIndex + 1] ELSE -1

getLineNumber(doc, group, rowType, rowIndex) ==
  Let(ScanFrom(doc, group, group.line,
               [unitLine |-> -1, typeLine |-> -1, dataLines |-> <<>>]),
      LAMBDA acc :
        CASE rowType = "UNIT" -> acc.unitLine
          [] rowType = "TYPE" -> acc.typeLine
          [] rowType = "DATA" -> DataLineAt(acc.dataLines, rowIndex))

\* the loop of getCellRange from 0-based offset i on: the pair of the
\* 0-based start and end (exclusive) offsets of the content, Null if none
RECURSIVE CellRangeFrom(_, _, _, _)
CellRangeFrom(line, targetFieldIndex, fieldIndex, i) ==
  IF ~(i < Len(line) /\ fieldIndex <= targetFieldIndex) THEN Null
  ELSE IF line[i + 1] = QUOTE
    THEN Let(i + 1, LAMBDA contentStart :
         Let(IndexFrom(line, QUOTE, contentStart + 1), LAMBDA close :
         Let(IF close = 0 THEN Len(line) ELSE close - 1, LAMBDA contentEnd :
         IF fieldIndex = targetFieldIndex
           THEN <<contentStart, contentEnd>>
           ELSE CellRangeFrom(line, targetFieldIndex, fieldIndex + 1,
                              contentEnd + 1))))
    ELSE CellRangeFrom(line, targetFieldIndex, fieldIndex, i + 1)

\* the span of a field with its two quotes
getCellRangeWithQuotes(line, colIndex) ==
  Let(CellRangeFrom(line, colIndex + 1, 0, 0), LAMBDA range :
      IF range = Null THEN Null ELSE <<range[1] - 1, range[2] + 1>>)

getCellRange(line, colIndex) == CellRangeFrom(line, colIndex + 1, 0, 0)

\* array[i] || "": the i-th element (0-based), the empty string when absent
OrEmpty(arr, i) == IF i < Len(arr) THEN arr[i + 1] ELSE <<>>

\* one <tr> of the table: its data-row-type and data-row-index attributes
\* (addressed is FALSE for the <tr> of <thead>, which carries neither) and
\* the text of its cells in data-col-index order
TableRow(rowType, rowIndex, addressed, cells) ==
  [rowType |-> rowType, rowIndex |-> rowIndex, addressed |-> addressed,
   cells |-> cells]

\* the cells of a UNIT, TYPE or DATA row: one per heading
Cells(group, values) ==
  [i \in 1..Len(group.headings) |-> OrEmpty(values, i - 1)]

\* the rows buildTableHtml emits, in order
buildTableHtml(group) ==
  <<TableRow("HEADING", 0, FALSE, group.headings)>>
  \o (IF Len(group.units) > 0
        THEN <<TableRow("UNIT", 0, TRUE, Cells(group, group.units))>> ELSE <<>>)
  \o (IF Len(group.types) > 0
        THEN <<TableRow("TYPE", 0, TRUE, Cells(group, group.types))>> ELSE <<>>)
  \o [k \in 1..Len(group.data) |->
        TableRow("DATA", k - 1, TRUE, Cells(group, group.data[k]))]

\* the content of the webview: nothing yet, the empty state, or the table
\* of a group with the options of the group selector
NoHtml == [kind |-> "none", group |-> Undefined, options |-> <<>>, rows |-> <<>>]
getEmptyHtml == [kind |-> "empty", group |-> Undefined, options |-> <<>>, rows |-> <<>>]
getHtmlContent(parsed, group) ==
  [kind |-> "table", group |-> group.name,
   options |-> [k \in 1..Len(parsed.groups) |-> parsed.groups[k].name],
   rows |-> buildTableHtml(group)]

(***************************************************************************)
(* Table Synchronisation Engine: the handlers                              *)
(*                                                                         *)
(* A handler is an operator from the state at its start to the state at    *)
(* its end.  The state is the record s of the variables below; s.out is    *)
(* the sequence of what the handler has emitted so far (renders, posted    *)
(* messages, edits, cursor moves), in order.                               *)
(***************************************************************************)
NoDoc == "none"

Emit(s, o) == [s EXCEPT !.out = Append(s.out, o)]

\* parseDocument called on buffer d: the result is the text of the buffer
\* parsed, and the call stores it in documentCache.  Every change of a text
\* is followed in the same step by a parse of it (onDidChangeTextDocument),
\* so that an entry of documentCache is always the current text parsed
\* (CacheIsCurrent below): the model takes the result from the entry where
\* there is one instead of evaluating the parser again.
Parsed(s, d) ==
  IF s.cache[d] # <<>> THEN s.cache[d][1] ELSE parseDocument(s.text[d])

\* parsed.groups.keys().next().value
FirstKey(parsed) ==
  IF parsed.groups = <<>> THEN Undefined ELSE parsed.groups[1].name

\* updateContent with the group it falls back to rendered but not stored in
\* this.currentGroup
updateContentUnstored(s) ==
  IF ~s.panel \/ s.currentDocument = NoDoc THEN s
  ELSE Let(Parsed(s, s.currentDocument), LAMBDA parsed :
       Let(IF s.currentGroup = Undefined \/ ~MapHas(parsed.groups, s.currentGroup)
             THEN FirstKey(parsed) ELSE s.currentGroup, LAMBDA cg :
       Let(IF cg = Undefined THEN getEmptyHtml
           ELSE getHtmlContent(parsed, MapGet(parsed.groups, cg)), LAMBDA content :
       Emit([s EXCEPT !.cache[s.currentDocument] = <<parsed>>, !.html = content],
            [t |-> "render", kind |-> content.kind, group |-> content.group]))))

updateContent(s) ==
  IF ~s.panel \/ s.currentDocument = NoDoc THEN s
  ELSE Let(Parsed(s, s.currentDocument), LAMBDA parsed :
       Let(IF s.currentGroup = Undefined \/ ~MapHas(parsed.groups, s.currentGroup)
             THEN FirstKey(parsed) ELSE s.currentGroup, LAMBDA cg :
       Let(IF cg = Undefined THEN getEmptyHtml
           ELSE getHtmlContent(parsed, MapGet(parsed.groups, cg)), LAMBDA content :
       Emit([s EXCEPT !.cache[s.currentDocument] = <<parsed>>,
                      !.currentGroup = cg, !.html = content],
            [t |-> "render", kind |-> content.kind, group |-> content.group]))))

\* the row kind and row index syncWithEditor computes for the cursor line
\* ("" for a rowType left undefined)
HighlightRow(doc, group, lineNumber) ==
  Let(doc[lineNumber + 1], LAMBDA lineText :
  IF MatchKeyword(lineText, KwHEADING) THEN <<"HEADING", 0>>
  ELSE IF MatchKeyword(lineText, KwUNIT) THEN <<"UNIT", 0>>
  ELSE IF MatchKeyword(lineText, KwTYPE) THEN <<"TYPE", 0>>
  ELSE IF MatchKeyword(lineText, KwDATA)
    THEN Let(findFirstDataLine(doc, group), LAMBDA firstDataLine :
         <<"DATA", IF firstDataLine >= 0 THEN lineNumber - firstDataLine ELSE -1>>)
  ELSE <<"", -1>>)

\* the group of the cursor line made the current one whether it is or not
SwitchGroupAlways(s, group) ==
  updateContent([s EXCEPT !.currentGroup = group.name])

\* syncWithEditor: the group of the cursor line becomes the current one and
\* is rendered if it is not the current one
SwitchGroup(s, group) ==
  IF s.currentGroup # group.name
    THEN updateContent([s EXCEPT !.currentGroup = group.name])
    ELSE s

\* the synchronisation without the test of the buffer of the editor
syncWithAnyEditor(s, d) ==
  IF ~s.panel \/ s.currentDocument = NoDoc THEN s
  ELSE Let(Parsed(s, d), LAMBDA parsed :
       Let([s EXCEPT !.cache[d] = <<parsed>>], LAMBDA s1 :
       Let(findGroupForLine(parsed, s.cursor[d]), LAMBDA group :
       IF group = Null THEN s1
       ELSE Let(SwitchGroup(s1, group[1]), LAMBDA s2 :
            Let(HighlightRow(s2.text[s2.currentDocument], group[1], s2.cursor[d]),
                LAMBDA hl :
            IF hl[1] # "" /\ hl[2] >= 0
              THEN Emit(s2, [t |-> "highlight", rowType |-> hl[1],
                             rowIndex |-> hl[2]])
              ELSE s2)))))

\* syncWithEditor(editor), editor showing buffer d
syncWithEditor(s, d) ==
  IF ~s.panel \/ s.currentDocument = NoDoc THEN s
  ELSE IF d # s.currentDocument THEN s
  ELSE Let(Parsed(s, d), LAMBDA parsed :
       Let([s EXCEPT !.cache[d] = <<parsed>>], LAMBDA s1 :
       Let(findGroupForLine(parsed, s.cursor[d]), LAMBDA group :
       IF group = Null THEN s1
       ELSE Let(SwitchGroup(s1, group[1]), LAMBDA s2 :
            \* findFirstDataLine reads this.currentDocument
            Let(HighlightRow(s2.text[s2.currentDocument], group[1], s2.cursor[d]),
                LAMBDA hl :
            IF hl[1] # "" /\ hl[2] >= 0
              THEN Emit(s2, [t |-> "highlight", rowType |-> hl[1],
                             rowIndex |-> hl[2]])
              ELSE s2)))))

\* the listener taking the Parsed Document of the buffer from documentCache
\* when it has an entry
onDidChangeTextDocumentCached(s, d) ==
  Let([s EXCEPT !.cache[d] = <<Parsed(s, d)>>], LAMBDA s1 :
  IF s1.panel /\ s1.currentDocument # NoDoc THEN updateContent(s1) ELSE s1)

\* the listener of onDidChangeTextDocument for a change of buffer d
onDidChangeTextDocument(s, d) ==
  Let([s EXCEPT !.cache[d] = <<parseDocument(s.text[d])>>], LAMBDA s1 :
  IF s1.panel /\ s1.currentDocument # NoDoc THEN updateContent(s1) ELSE s1)

\* the text of a line with the characters from its start to the end of a
\* range replaced
ReplaceToRangeEnd(line, range, newValue) ==
  newValue \o SubSeq(line, range[2] + 1, Len(line))

\* the text of a line with the characters of a range replaced
ReplaceRange(line, range, newValue) ==
  SubSeq(line, 1, range[1]) \o newValue \o SubSeq(line, range[2] + 1, Len(line))

\* handleCellEdit(message); the edit is applied to the buffer and the
\* change event it causes is delivered before any other event
handleCellEdit(s, m) ==
  IF s.currentDocument = NoDoc \/ s.currentGroup = Undefined THEN s
  ELSE Let(s.currentDocument, LAMBDA d :
       Let(Parsed(s, d), LAMBDA parsed :
       Let([s EXCEPT !.cache[d] = <<parsed>>], LAMBDA s1 :
       IF ~MapHas(parsed.groups, s.currentGroup) THEN s1
       ELSE Let(MapGet(parsed.groups, s.currentGroup), LAMBDA group :
            Let(getLineNumber(s.text[d], group, m.rowType, m.rowIndex),
                LAMBDA lineNumber :
            IF lineNumber < 0 THEN s1
            ELSE Let(s.text[d][lineNumber + 1], LAMBDA line :
                 Let(getCellRange(line, m.colIndex), LAMBDA range :
                 IF range = Null THEN s1
                 ELSE onDidChangeTextDocument(
                        Emit([s1 EXCEPT !.text[d][lineNumber + 1] =
                                          ReplaceRange(line, range, m.newValue)],
                             [t |-> "edit", doc |-> d, line |-> lineNumber,
                              range |-> range, newValue |-> m.newValue]),
                        d))))))))

\* handleNavigate(message); every buffer is shown in a visible editor, and
\* the selection event the cursor move causes is delivered before any other
\* event
handleNavigate(s, m) ==
  IF s.currentDocument = NoDoc \/ s.currentGroup = Undefined THEN s
  ELSE Let(s.currentDocument, LAMBDA d :
       Let(Parsed(s, d), LAMBDA parsed :
       Let([s EXCEPT !.cache[d] = <<parsed>>], LAMBDA s1 :
       IF ~MapHas(parsed.groups, s.currentGroup) THEN s1
       ELSE Let(MapGet(parsed.groups, s.currentGroup), LAMBDA group :
            Let(IF m.rowType = "HEADING" THEN group.headingLine
                ELSE getLineNumber(s.text[d], group, m.rowType,
                                   IF m.rowType = "DATA" THEN m.rowIndex ELSE 0),
                LAMBDA lineNumber :
            IF lineNumber < 0 THEN s1
            ELSE syncWithEditor(
                   Emit([s1 EXCEPT !.cursor[d] = lineNumber],
                        [t |-> "cursor", doc |-> d, line |-> lineNumber]),
                   d))))))

\* the group selected, with the cursor of the buffer moved to its declaration
handleSelectGroupRevealing(s, m) ==
  Let(updateContent([s EXCEPT !.currentGroup = m.groupName]), LAMBDA s1 :
  IF s1.currentDocument # NoDoc /\ s1.currentGroup # Undefined
    THEN [s1 EXCEPT !.cursor[s1.currentDocument] =
            MapGet(Parsed(s1, s1.currentDocument).groups, s1.currentGroup).line]
    ELSE s1)

handleSelectGroup(s, m) ==
  updateContent([s EXCEPT !.currentGroup = m.groupName])

handleMessage(s, m) ==
  CASE m.type = "cellEdit" -> handleCellEdit(s, m)
    [] m.type = "navigate" -> handleNavigate(s, m)
    [] m.type = "selectGroup" -> handleSelectGroup(s, m)

\* a message of the webview, delivered to every listener that
\* onDidReceiveMessage has registered on the panel
RECURSIVE Deliver(_, _, _)
Deliver(s, m, n) ==
  IF n = 0 THEN s ELSE Deliver(handleMessage(s, m), m, n - 1)

\* toggle(document), up to the await of show: the panel is disposed, or
\* show makes the buffer the current one, creates the panel and suspends
toggle(s, d) ==
  IF s.panel
    THEN [s EXCEPT !.panel = FALSE, !.handlers = 0, !.html = NoHtml]
    ELSE [s EXCEPT !.currentDocument = d, !.panel = TRUE, !.handlers = 0,
                   !.html = NoHtml, !.awaiting = Append(s.awaiting, d)]

\* show(document) from its await on, activeEditor being the buffer of
\* window.activeTextEditor at that time (NoDoc if there is none).  When the panel was disposed in the
\* meantime this.panel is undefined and this.panel.onDidDispose throws: the
\* rest of show is not executed.
showResume(s, activeEditor) ==
  Let(Head(s.awaiting), LAMBDA document :
  Let([s EXCEPT !.awaiting = Tail(s.awaiting)], LAMBDA s0 :
  IF ~s0.panel THEN Emit(s0, [t |-> "throw"])
  ELSE Let([s0 EXCEPT !.handlers = s0.handlers + 1], LAMBDA s1 :
       IF activeEditor # document THEN updateContent(s1)
       ELSE Let(Parsed(s1, document), LAMBDA parsed :
            Let(findGroupForLine(parsed, s1.cursor[document]), LAMBDA group :
            updateContent(
              [s1 EXCEPT !.cache[document] = <<parsed>>,
                         !.currentGroup =
                           IF group # Null THEN group[1].name
                           ELSE FirstKey(parsed)]))))))

(***************************************************************************)
(* The buffers and the inputs of the model                                 *)
(***************************************************************************)
Quoted(f) == <<QUOTE>> \o f \o <<QUOTE>>

RECURSIVE Row(_)
\* the line of the quoted fields, separated by single commas
Row(fields) ==
  IF fields = <<>> THEN <<>>
  ELSE IF Len(fields) = 1 THEN Quoted(fields[1])
  ELSE Quoted(fields[1]) \o <<COMMA>> \o Row(Tail(fields))

Blank == <<>>
GroupA == Row(<<KwGROUP, <<"A">>>>)
GroupB == Row(<<KwGROUP, <<"B">>>>)
HeadingXY == Row(<<KwHEADING, <<"X">>, <<"Y">>>>)
HeadingX == Row(<<KwHEADING, <<"X">>>>)

\* two well-formed blocks; the second data row of A has fewer fields than
\* A has headings
TwoBlocks ==
  << GroupA, HeadingXY,
     Row(<<KwUNIT, <<"m">>, <<>>>>),
     Row(<<KwTYPE, <<"I","D">>, <<"2">>>>),
     Row(<<KwDATA, <<"P">>, <<"1">>>>),
     Row(<<KwDATA, <<"Q">>>>),
     GroupB, HeadingX,
     Row(<<KwDATA, <<"5">>>>) >>

\* a data row before the first declaration, blank lines between the rows of
\* a block, an indented data row and keywords in lower case
Irregular ==
  << Row(<<KwDATA, <<"0">>>>),
     GroupA, HeadingX, Blank,
     Row(<<KwDATA, <<"1">>>>),
     Blank,
     Row(<<<<"d","a","t","a">>, <<"2">>>>),
     <<SPACE>> \o Row(<<KwDATA, <<"3">>>>) >>

\* a block with two UNIT rows, and a GROUP row without an identifier
\* followed by a data row
Repeated ==
  << GroupA, HeadingX,
     Row(<<KwUNIT, <<"m">>>>),
     Row(<<KwUNIT, <<"k">>>>),
     Row(<<KwDATA, <<"1">>>>),
     Row(<<KwGROUP, <<"-">>>>),
     Row(<<KwDATA, <<"2">>>>) >>

\* a block whose only data row is eleven lines after its declaration
FarData ==
  << GroupB, HeadingX, Blank, Blank, Blank, Blank, Blank, Blank, Blank, Blank,
     Blank,
     Row(<<KwDATA, <<"1">>>>) >>

\* a buffer without a group: one empty line
NoGroups == << Blank >>

\* the texts the first buffer is opened with
Fixtures == {TwoBlocks, Irregular, Repeated, FarData, NoGroups}

\* the text of the second buffer
Other == << Row(<<KwGROUP, <<"C">>>>) >>

Docs == {"d1", "d2"}

\* the values typed into a cell
NewValues == { <<"9">> }

\* the row indices and column indices of the messages of the webview
RowIndices == {-1, 0, 1, 2, 12}
ColIndices == {0, 1}
GroupNames == { <<"A">>, <<"B">>, <<"Z">> }

Message(type, rowType, rowIndex, colIndex, newValue, groupName) ==
  [type |-> type, rowType |-> rowType, rowIndex |-> rowIndex,
   colIndex |-> colIndex, newValue |-> newValue, groupName |-> groupName]

NoMessage == Message("none", "", 0, 0, <<>>, Undefined)

\* CellEditMessage: an index outside the rows of every buffer is sent with
\* one column and one value only
CellEditMessages ==
  { Message("cellEdit", rt, ri, ci, nv, Undefined) :
      rt \in {"UNIT", "TYPE", "DATA"}, ri \in {0}, ci \in ColIndices,
      nv \in NewValues }
  \cup { Message("cellEdit", "DATA", ri, ci, nv, Undefined) :
      ri \in {1, 2}, ci \in ColIndices, nv \in NewValues }
  \cup { Message("cellEdit", "DATA", ri, 0, <<"9">>, Undefined) :
      ri \in RowIndices \ {0, 1, 2} }

NavigateMessages ==
  { Message("navigate", rt, 0, 0, <<>>, Undefined) :
      rt \in {"HEADING", "UNIT", "TYPE"} }
  \cup { Message("navigate", "DATA", ri, 0, <<>>, Undefined) : ri \in RowIndices }

SelectGroupMessages ==
  { Message("selectGroup", "", 0, 0, <<>>, n) : n \in GroupNames }

\* the number of edits applied to the buffers in a behaviour, and the number
\* of calls of show suspended at their await at a time
MaxEdits == 1
MaxPendingShows == 1

(***************************************************************************)
(* The state machine                                                       *)
(***************************************************************************)
VARIABLES
  text,             \* the text of each buffer
  cursor,           \* the line of the cursor of the editor of each buffer
  panel,            \* this.panel is set
  handlers,         \* the listeners registered with onDidReceiveMessage
  awaiting,         \* the document arguments of the calls of show at their await
  currentDocument,  \* this.currentDocument
  currentGroup,     \* this.currentGroup
  html,             \* panel.webview.html
  cache,            \* documentCache
  nEdits,           \* the edits applied so far
  closed,           \* the buffers that are closed (no editor shows them)
  ev                \* the last event and what its handler emitted

vars == <<text, cursor, panel, handlers, awaiting,
          currentDocument, currentGroup, html, cache, nEdits, closed, ev>>

State ==
  [text |-> text, cursor |-> cursor,
   panel |-> panel, handlers |-> handlers, awaiting |-> awaiting,
   currentDocument |-> currentDocument, currentGroup |-> currentGroup,
   html |-> html, cache |-> cache, out |-> <<>>]

\* the last event: its kind, the buffer it is about, the buffer of the
\* active editor when show resumed, the message of the webview and what the
\* handler emitted
Event(op, doc, active, msg, out) ==
  [op |-> op, doc |-> doc, active |-> active, msg |-> msg, out |-> out]

\* the step from the current state to the state a handler ends in
Becomes(end, op, doc, active, msg) ==
  \E s \in {end} :
    /\ text' = s.text
    /\ cursor' = s.cursor
    /\ panel' = s.panel
    /\ handlers' = s.handlers
    /\ awaiting' = s.awaiting
    /\ currentDocument' = s.currentDocument
    /\ currentGroup' = s.currentGroup
    /\ html' = s.html
    /\ cache' = s.cache
    /\ nEdits' = nEdits + (IF s.text # text THEN 1 ELSE 0)
    /\ closed' = closed
    /\ ev' = Event(op, doc, active, msg, s.out)

\* the state after activate, the first buffer holding one of the texts
InitOn(texts) ==
  /\ \E t \in texts : text = [d \in Docs |-> IF d = "d1" THEN t ELSE Other]
  /\ cursor = [d \in Docs |-> 0]
  /\ panel = FALSE
  /\ handlers = 0
  /\ awaiting = <<>>
  /\ currentDocument = NoDoc
  /\ currentGroup = Undefined
  /\ html = NoHtml
  /\ cache = [d \in Docs |-> <<>>]
  /\ nEdits = 0
  /\ closed = {}
  /\ ev = Event("init", NoDoc, NoDoc, NoMessage, <<>>)

Init == InitOn(Fixtures)

\* the command ags.toggleTableView, the active editor showing buffer d
ToggleTableView ==
  \E d \in Docs \ closed :
    /\ panel \/ Len(awaiting) < MaxPendingShows
    /\ Becomes(toggle(State, d), "toggle", d, NoDoc, NoMessage)

\* the command show awaits completes; the user may have given the focus to
\* another editor or to the panel since
ShowResume ==
  \E e \in Docs \cup {NoDoc} :
    /\ awaiting # <<>>
    /\ Becomes(showResume(State, e), "show", Head(awaiting), e, NoMessage)

\* the cursor of the editor of a buffer moves to a line: the listener of
\* onDidChangeTextEditorSelection
ChangeSelection ==
  \E d \in Docs \ closed : \E l \in 0..(Len(text[d]) - 1) :
    Becomes(syncWithEditor([State EXCEPT !.cursor[d] = l], d),
            "selection", d, NoDoc, NoMessage)

WebviewReady == panel /\ handlers >= 1 /\ html.kind = "table"

CellEdit ==
  \E m \in CellEditMessages :
    /\ WebviewReady
    /\ nEdits < MaxEdits
    /\ Becomes(Deliver(State, m, handlers), "cellEdit", currentDocument, NoDoc, m)

Navigate ==
  \E m \in NavigateMessages :
    /\ WebviewReady
    /\ Becomes(Deliver(State, m, handlers), "navigate", currentDocument, NoDoc, m)

SelectGroup ==
  \E m \in SelectGroupMessages :
    /\ WebviewReady
    /\ Becomes(Deliver(State, m, handlers), "selectGroup", currentDocument, NoDoc, m)

Next ==
  \/ ToggleTableView
  \/ ShowResume
  \/ ChangeSelection
  \/ CellEdit
  \/ Navigate
  \/ SelectGroup

Spec == Init /\ [][Next]_vars

\* an entry of documentCache is the current text of its buffer parsed
CacheIsCurrent ==
  \A d \in Docs : cache[d] # <<>> => cache[d][1] = parseDocument(text[d])

(***************************************************************************)
(* The line each row of a group was parsed from                            *)
(***************************************************************************)
\* The loop of parseDocument again, keeping for every line the branch taken
\* and the group currentGroup refers to after the line (its name and its
\* declaration line) instead of the rows.
RECURSIVE TraceFrom(_, _, _, _)
TraceFrom(doc, i, cur, curLine) ==
  IF i >= Len(doc) THEN <<>>
  ELSE LET role == LineRole(cur, doc[i + 1])
           cur1 == IF role = "group" THEN GroupMatch(Trim(doc[i + 1])) ELSE cur
           curLine1 == IF role = "group" THEN i ELSE curLine
       IN <<[role |-> role, group |-> cur1, groupLine |-> curLine1]>>
          \o TraceFrom(doc, i + 1, cur1, curLine1)

ParseTrace(doc) == TraceFrom(doc, 0, Undefined, -1)

\* the lines (0-based, in order) whose branch stored a row of the kind in
\* the group object `group` of the parsed document
LinesOf(doc, group, role) ==
  LET trace == ParseTrace(doc)
  IN SelectSeq([k \in 1..Len(doc) |-> k - 1],
               LAMBDA i : /\ trace[i + 1].role = role
                          /\ trace[i + 1].group = group.name
                          /\ trace[i + 1].groupLine = group.line)

\* the line the parser took a row of the group from: the heading, the units
\* and the types are those of the last such line, the data rows are in line
\* order; -1 if there is no such row
RowSource(doc, group, rowType, rowIndex) ==
  LET ls == LinesOf(doc, group,
                    CASE rowType = "HEADING" -> "heading"
                      [] rowType = "UNIT" -> "unit"
                      [] rowType = "TYPE" -> "type"
                      [] rowType = "DATA" -> "data")
  IN IF rowType = "DATA"
       THEN (IF rowIndex >= 0 /\ rowIndex < Len(ls) THEN ls[rowIndex + 1] ELSE -1)
       ELSE (IF ls = <<>> THEN -1 ELSE ls[Len(ls)])

(***************************************************************************)
(* Buffers made of well-formed group blocks                                *)
(***************************************************************************)
\* the blocks and the data rows of a block of the buffers drawn
MaxBlocks == 2
MaxData == 2

DataValue(k) == IF k = 1 THEN <<"1">> ELSE IF k = 2 THEN <<"2">> ELSE <<"3">>

\* a declaration, a heading, an optional unit row, an optional type row and
\* n data rows
Block(name, hasUnit, hasType, n) ==
  << Row(<<KwGROUP, name>>), HeadingXY >>
  \o (IF hasUnit THEN << Row(<<KwUNIT, <<"m">>, <<"s">>>>) >> ELSE <<>>)
  \o (IF hasType THEN << Row(<<KwTYPE, <<"I","D">>, <<"X">>>>) >> ELSE <<>>)
  \o [k \in 1..n |-> Row(<<KwDATA, DataValue(k), <<"0">>>>)]

Blocks ==
  { Block(name, u, t, n) :
      name \in { <<"A">>, <<"B">> }, u \in BOOLEAN, t \in BOOLEAN, n \in 0..MaxData }

RECURSIVE BlockDocs(_)
\* the buffers of one to k blocks
BlockDocs(k) ==
  IF k = 1 THEN Blocks
  ELSE BlockDocs(k - 1) \cup { d \o b : d \in BlockDocs(k - 1), b \in Blocks }

WellFormedDocs == BlockDocs(MaxBlocks)

\* The view is opened on the first buffer, a group of the selector is
\* selected and a row of the table rendered for it is clicked: the handlers
\* of ToggleTableView, ShowResume, SelectGroup and Navigate in one step.
OpenSelectNavigate ==
  /\ ev.op = "init"
  /\ \E s1 \in {showResume(toggle(State, "d1"), "d1")} :
       /\ s1.html.kind = "table"
       /\ \E k \in 1..Len(s1.html.options) :
            \E s2 \in {handleSelectGroup(
                          s1, Message("selectGroup", "", 0, 0, <<>>,
                                      s1.html.options[k]))} :
              \E r \in 1..Len(s2.html.rows) :
                \E m \in {Message("navigate", s2.html.rows[r].rowType,
                                   s2.html.rows[r].rowIndex, 0, <<>>, Undefined)} :
                  /\ s2.html.rows[r].addressed
                  /\ Becomes(handleNavigate([s2 EXCEPT !.out = <<>>], m),
                             "navigate", "d1", NoDoc, m)

NextWellFormed == OpenSelectNavigate

\* the view on buffers made of well-formed group blocks
SpecWellFormed == InitOn(WellFormedDocs) /\ [][NextWellFormed]_vars

\* the group of the current document the table shows
ActiveGroup == MapGet(parseDocument(text[currentDocument]).groups, currentGroup)

\* C1: in a buffer made of well-formed group blocks, a click on a row of the
\* rendered table of any group moves the cursor to the line the parser took
\* that row from.
RoundTrip ==
  ev.op = "navigate" =>
    /\ ev.out # <<>>
    /\ ev.out[1].t = "cursor"
    /\ ev.out[1].line =
         RowSource(text["d1"], ActiveGroup, ev.msg.rowType, ev.msg.rowIndex)
    /\ cursor["d1"] = ev.out[1].line

\* a click on the second data row of the second block, which has a unit row
\* and a type row, has moved the cursor to that row
RoundTripWitness ==
  /\ ev.op = "navigate"
  /\ ev.msg.rowType = "DATA" /\ ev.msg.rowIndex = 1
  /\ ActiveGroup.line > 0
  /\ Len(ActiveGroup.units) > 0 /\ Len(ActiveGroup.types) > 0
  /\ cursor["d1"] = ActiveGroup.line + 5

(***************************************************************************)
(* Edit-cell and Navigate                                                  *)
(***************************************************************************)
\* what a handler emitted of one kind, in order
Emitted(out, t) == SelectSeq(out, LAMBDA o : o.t = t)

\* the positions (1-based) of the double quotes of a line, in order
QuotesOf(line) ==
  SelectSeq([k \in 1..Len(line) |-> k], LAMBDA k : line[k] = QUOTE)

\* the line with the characters strictly between the quotes of its quoted
\* field f replaced by v, field 0 being the row keyword
WithField(line, f, v) ==
  SubSeq(line, 1, QuotesOf(line)[2 * f + 1]) \o v
    \o SubSeq(line, QuotesOf(line)[2 * f + 2], Len(line))

\* a cell edit has issued a replacement
EditIssued(e) == e.op = "cellEdit" /\ Emitted(e.out, "edit") # <<>>

RecordStructure(doc) ==
  [k \in 1..Len(parseDocument(doc).groups) |->
     <<parseDocument(doc).groups[k].name, parseDocument(doc).groups[k].dataCount>>]

\* the value has no double quote and no line break
PlainValue(v) == \A k \in 1..Len(v) : v[k] \notin {QUOTE, "\n", "\r"}

\* C3: after a successful Edit-cell whose newValue has no double quote and
\* no line break, the buffers parse to the same groups in the same order
\* with the same record counts as before.
StructurePreserved ==
  [][ (EditIssued(ev') /\ PlainValue(ev'.msg.newValue)) =>
        \A d \in Docs : RecordStructure(text'[d]) = RecordStructure(text[d])
    ]_vars

\* the only data row of the second block of TwoBlocks has been edited, and
\* the block still has one record
StructurePreservedWitness ==
  /\ EditIssued(ev)
  /\ PlainValue(ev.msg.newValue)
  /\ currentGroup = <<"B">>
  /\ text["d1"] = [TwoBlocks EXCEPT ![9] = Row(<<KwDATA, <<"9">>>>)]
  /\ RecordStructure(text["d1"]) = << << <<"A">>, 2 >>, << <<"B">>, 1 >> >>

\* the Parsed Document of the bound buffer
CurrentParse == Parsed(State, currentDocument)

\* the request is for a data row of the active group whose ordinal is
\* negative or at least the record count of the group plus the slack
OutOfWindow(parsed, group, m) ==
  /\ m.rowType = "DATA"
  /\ MapHas(parsed.groups, group)
  /\ \/ m.rowIndex < 0
     \/ m.rowIndex >= MapGet(parsed.groups, group).dataCount + Slack

\* C4: an Edit-cell or Navigate request for a data row whose ordinal is
\* negative or at or beyond the record count of the active group plus the
\* slack changes no text and no cursor, and the handler emits nothing (no
\* edit, no cursor move, no render, no error).
BoundedRescan ==
  [][ (/\ ev'.op \in {"cellEdit", "navigate"}
       /\ OutOfWindow(CurrentParse, currentGroup, ev'.msg)) =>
        /\ text' = text
        /\ cursor' = cursor
        /\ ev'.out = <<>>
    ]_vars

\* a click on data row 12 of the first block of TwoBlocks, which has two
\* records, has been handled
BoundedRescanWitness ==
  /\ ev.op = "navigate"
  /\ ev.msg.rowType = "DATA" /\ ev.msg.rowIndex = 12
  /\ text["d1"] = TwoBlocks
  /\ currentDocument = "d1" /\ currentGroup = <<"A">>
  /\ MapGet(parseDocument(text["d1"]).groups, currentGroup).dataCount + Slack = 12
  /\ ev.out = <<>>

(***************************************************************************)
(* Select-group, the cells of the table and the highlight                  *)
(***************************************************************************)
\* C5: Select-group of a name that is no group of the bound buffer changes
\* neither activeGroup nor the group the table shows.
SelectMissingIsNoOp ==
  [][ (/\ ev'.op = "selectGroup"
       /\ ~MapHas(CurrentParse.groups, ev'.msg.groupName)) =>
        /\ currentGroup' = currentGroup
        /\ html'.group = html.group
    ]_vars

\* the table shown has a cell at the address of the message
RenderedCell(content, m) ==
  /\ content.kind = "table"
  /\ \E r \in 1..Len(content.rows) :
       /\ content.rows[r].addressed
       /\ content.rows[r].rowType = m.rowType
       /\ content.rows[r].rowIndex = m.rowIndex
       /\ m.colIndex < Len(content.rows[r].cells)

\* the line the parser took the row from is one of the dataCount + Slack
\* lines the re-scan reads
InsideWindow(doc, group, m) ==
  /\ RowSource(doc, group, m.rowType, m.rowIndex) >= group.line
  /\ RowSource(doc, group, m.rowType, m.rowIndex)
       < group.line + group.dataCount + Slack

\* C6: every Edit-cell addressed to a cell of the table rendered for the
\* active group, whose row lies inside the re-scan window, issues a
\* replacement.
RenderedCellEditReplaces ==
  [][ (/\ ev'.op = "cellEdit"
       /\ html.group = currentGroup
       /\ RenderedCell(html, ev'.msg)
       /\ MapHas(CurrentParse.groups, currentGroup)
       /\ InsideWindow(text[currentDocument],
                       MapGet(CurrentParse.groups, currentGroup), ev'.msg)) =>
        EditIssued(ev')
    ]_vars

\* the table shows the value at the address of the message
ShowsValue(content, m) ==
  /\ content.kind = "table"
  /\ \E r \in 1..Len(content.rows) :
       /\ content.rows[r].addressed
       /\ content.rows[r].rowType = m.rowType
       /\ content.rows[r].rowIndex = m.rowIndex
       /\ m.colIndex < Len(content.rows[r].cells)
       /\ content.rows[r].cells[m.colIndex + 1] = m.newValue

\* C7: after an Edit-cell replacement the bound buffer has been parsed
\* again, the table of the unchanged active group has been rendered again,
\* and it shows newValue at the address of the edit.
EditedCellShown ==
  [][ (EditIssued(ev') /\ PlainValue(ev'.msg.newValue)) =>
        /\ cache'[currentDocument] = <<parseDocument(text'[currentDocument])>>
        /\ Emitted(ev'.out, "render") # <<>>
        /\ ev'.out[1].t = "edit"
        /\ currentGroup' = currentGroup
        /\ html'.group = currentGroup
        /\ ShowsValue(html', ev'.msg)
    ]_vars

\* C8: Sync-from-cursor on a line the parser took a data record of a group
\* from emits the highlight instruction (DATA, k), k being the index of the
\* record in the data rows of the group.
HighlightIsRecordIndex ==
  (/\ ev.op = "selection" /\ panel /\ ev.doc = currentDocument
   /\ ParseTrace(text[ev.doc])[cursor[ev.doc] + 1].role = "data") =>
    Emitted(ev.out, "highlight") =
      << [t |-> "highlight", rowType |-> "DATA",
          rowIndex |->
            indexOf(LinesOf(text[ev.doc],
                            [name |-> ParseTrace(text[ev.doc])[cursor[ev.doc] + 1].group,
                             line |-> ParseTrace(text[ev.doc])[cursor[ev.doc] + 1].groupLine],
                            "data"),
                    cursor[ev.doc])] >>

\* C9: Sync-from-cursor of the bound buffer changes activeGroup exactly when
\* the group of the cursor line exists and is not activeGroup, and then the
\* table of that group is rendered before the highlight is emitted; when the
\* group is activeGroup nothing is rendered; when the line is in no group
\* activeGroup and the table are unchanged and nothing is emitted.
SyncSwitchesGroup ==
  [][ (ev'.op = "selection" /\ panel /\ currentDocument # NoDoc
       /\ ev'.doc = currentDocument) =>
        LET found == findGroupForLine(CurrentParse, cursor'[ev'.doc])
        IN /\ (currentGroup' # currentGroup)
                <=> (found # Null /\ found[1].name # currentGroup)
           /\ (found # Null /\ found[1].name # currentGroup) =>
                /\ currentGroup' = found[1].name
                /\ html'.kind = "table" /\ html'.group = found[1].name
                /\ Len(Emitted(ev'.out, "render")) = 1
                /\ ev'.out[1] = [t |-> "render", kind |-> "table",
                                 group |-> found[1].name]
           /\ (found # Null /\ found[1].name = currentGroup) =>
                /\ Emitted(ev'.out, "render") = <<>>
                /\ html' = html
           /\ found = Null =>
                /\ html' = html
                /\ ev'.out = <<>>
    ]_vars

\* the cursor has moved to the data row of the second block of TwoBlocks
\* while the table showed the first block: the table of the second block
\* was rendered, then the highlight was emitted
SyncSwitchesGroupWitness ==
  /\ ev.op = "selection" /\ ev.doc = "d1" /\ currentDocument = "d1"
  /\ text["d1"] = TwoBlocks
  /\ cursor["d1"] = 8
  /\ currentGroup = <<"B">>
  /\ ev.out = << [t |-> "render", kind |-> "table", group |-> <<"B">>],
                 [t |-> "highlight", rowType |-> "DATA", rowIndex |-> 0] >>

\* C10: Select/open with no active group sets activeGroup to the group of
\* the cursor line of the buffer, and to the first group of the mapping
\* when the cursor line is in no group.
OpenSelectsGroupAtCursor ==
  [][ (ev'.op = "show" /\ panel /\ currentGroup = Undefined) =>
        LET found == findGroupForLine(Parsed(State, Head(awaiting)),
                                      cursor[Head(awaiting)])
        IN currentGroup' = IF found # Null THEN found[1].name
                           ELSE FirstKey(Parsed(State, Head(awaiting)))
    ]_vars

(***************************************************************************)
(* Text changes by the user, and the closing of buffers                    *)
(***************************************************************************)
\* The user clears a line of an open buffer; the listener of
\* onDidChangeTextDocument runs.
ChangeText ==
  \E d \in Docs \ closed : \E l \in 0..(Len(text[d]) - 1) :
    /\ nEdits < MaxEdits
    /\ text[d][l + 1] # Blank
    /\ Becomes(onDidChangeTextDocument([State EXCEPT !.text[d][l + 1] = Blank], d),
               "change", d, NoDoc, NoMessage)

\* The user closes a buffer (its text saved): activate registers no listener
\* of onDidCloseTextDocument, so no code of the extension runs.  The buffer
\* of an open view, or of a call of show at its await, stays open.
CloseDocument ==
  \E d \in Docs \ closed :
    /\ ~(panel /\ currentDocument = d)
    /\ \A k \in 1..Len(awaiting) : awaiting[k] # d
    /\ closed' = closed \cup {d}
    /\ ev' = Event("close", d, NoDoc, NoMessage, <<>>)
    /\ UNCHANGED <<text, cursor, panel, handlers, awaiting, currentDocument,
                   currentGroup, html, cache, nEdits>>

\* The user opens a closed buffer again: its editor has the cursor on the
\* first line, and no listener of the table view runs.
OpenDocument ==
  \E d \in closed :
    /\ closed' = closed \ {d}
    /\ cursor' = [cursor EXCEPT ![d] = 0]
    /\ ev' = Event("open", d, NoDoc, NoMessage, <<>>)
    /\ UNCHANGED <<text, panel, handlers, awaiting, currentDocument,
                   currentGroup, html, cache, nEdits>>

NextDocuments ==
  \/ Next
  \/ ChangeText
  \/ CloseDocument
  \/ OpenDocument

\* the view, with the text changes of the user and the closing of buffers
SpecDocuments == Init /\ [][NextDocuments]_vars

\* C11: while the view is open and has rendered, activeGroup is a group of
\* the bound buffer as it parses now and the table of that group is what is
\* shown, or the buffer has no group, activeGroup is unset and the empty
\* state is what is shown.
ActiveGroupValid ==
  (panel /\ html.kind # "none") =>
    IF parseDocument(text[currentDocument]).groups = <<>>
      THEN currentGroup = Undefined /\ html = getEmptyHtml
      ELSE /\ MapHas(parseDocument(text[currentDocument]).groups, currentGroup)
           /\ html.kind = "table"
           /\ html.group = currentGroup

\* the only line of the second buffer, the declaration of the group shown,
\* has been cleared: the view shows the empty state and no group is active
ActiveGroupValidWitness ==
  /\ ev.op = "change" /\ ev.doc = "d2"
  /\ panel /\ currentDocument = "d2"
  /\ text["d2"] = << Blank >>
  /\ currentGroup = Undefined
  /\ html = getEmptyHtml
  /\ ev.out = << [t |-> "render", kind |-> "empty", group |-> Undefined] >>

(***************************************************************************)
(* Render                                                                  *)
(***************************************************************************)
\* the row kinds and row indices of the table of a group, in the order of
\* the Cell Addresses: heading, unit if any, type if any, data records
AddressesOf(group) ==
  << <<"HEADING", 0>> >>
  \o (IF Len(group.units) > 0 THEN << <<"UNIT", 0>> >> ELSE <<>>)
  \o (IF Len(group.types) > 0 THEN << <<"TYPE", 0>> >> ELSE <<>>)
  \o [k \in 1..Len(group.data) |-> <<"DATA", k - 1>>]

\* C12: the table rendered for the active group has, in this order, the
\* heading row, the unit row if present, the type row if present and one row
\* per data record, and every row, the heading row included, carries its row
\* kind and its row index.
RenderedRowsAddressed ==
  (panel /\ html.kind = "table") =>
    /\ [r \in 1..Len(html.rows) |-> <<html.rows[r].rowType, html.rows[r].rowIndex>>]
         = AddressesOf(MapGet(parseDocument(text[currentDocument]).groups, html.group))
    /\ \A r \in 1..Len(html.rows) : html.rows[r].addressed

\* C13: Select-group of a name that is a group of the bound buffer makes it
\* the active group and renders its table, and changes neither the text nor
\* the cursor of any buffer.
SelectGroupSwitches ==
  [][ (/\ ev'.op = "selectGroup"
       /\ MapHas(CurrentParse.groups, ev'.msg.groupName)) =>
        /\ currentGroup' = ev'.msg.groupName
        /\ html' = getHtmlContent(CurrentParse,
                                  MapGet(CurrentParse.groups, ev'.msg.groupName))
        /\ ev'.out # <<>>
        /\ \A k \in 1..Len(ev'.out) :
             ev'.out[k] = [t |-> "render", kind |-> "table",
                           group |-> ev'.msg.groupName]
        /\ text' = text
        /\ cursor' = cursor
    ]_vars

\* the second block of TwoBlocks has been selected while the cursor was on
\* the first line, inside the first block: the table of the second block is
\* shown and the cursor is still on the first line
SelectGroupSwitchesWitness ==
  /\ ev.op = "selectGroup" /\ ev.msg.groupName = <<"B">>
  /\ text["d1"] = TwoBlocks /\ currentDocument = "d1"
  /\ cursor["d1"] = 0
  /\ currentGroup = <<"B">>
  /\ html.group = <<"B">>
  /\ ev.out = << [t |-> "render", kind |-> "table", group |-> <<"B">>] >>

(***************************************************************************)
(* The await of show                                                       *)
(***************************************************************************)
\* C14: once Select/open has created the view, the next event handled is
\* the rest of that open (handlers registered, initial activeGroup assigned,
\* table rendered): no command, cursor event, text change or message of the
\* view is handled in between, and the open finds the view it has created.
OpenRunsToCompletion ==
  [][ awaiting # <<>> =>
        /\ ev'.op = "show"
        /\ panel' /\ handlers' = 1
        /\ Emitted(ev'.out, "render") # <<>>
    ]_vars

(***************************************************************************)
(* The cache of Parsed Documents                                           *)
(***************************************************************************)
\* C15: documentCache holds no entry for a buffer that is closed.
NoEntryForClosed == \A d \in closed : cache[d] = <<>>

(***************************************************************************)
(* The parser and the Position Index on drawn buffers                      *)
(***************************************************************************)
\* the lines of the buffers drawn, and the number of lines of a buffer
MaxLines == 4

GroupC == Row(<<KwGROUP, <<"C">>>>)

ParserLines ==
  { GroupA, GroupC, HeadingX,
    Row(<<KwUNIT, <<"m">>>>), Row(<<KwTYPE, <<"I","D">>>>), Row(<<KwDATA, <<"1">>>>) }

RECURSIVE LineSeqs(_)
\* the buffers of one to n lines
LineSeqs(n) ==
  IF n = 1 THEN { <<l>> : l \in ParserLines }
  ELSE LineSeqs(n - 1) \cup { Append(d, l) : d \in LineSeqs(n - 1), l \in ParserLines }

ParserDocs == LineSeqs(MaxLines)

\* a provider of the language calls parseDocument on a buffer
ParseBuffer ==
  \E d \in Docs :
    /\ cache' = [cache EXCEPT ![d] = <<parseDocument(text[d])>>]
    /\ ev' = Event("parse", d, NoDoc, NoMessage, <<>>)
    /\ UNCHANGED <<text, cursor, panel, handlers, awaiting, currentDocument,
                   currentGroup, html, nEdits, closed>>

\* findGroupForLine called on the parse of a buffer and one of its lines;
\* what is emitted is the result
GroupForLine ==
  \E d \in Docs : \E l \in 0..(Len(text[d]) - 1) :
    /\ cache' = [cache EXCEPT ![d] = <<parseDocument(text[d])>>]
    /\ ev' = Event("groupForLine", d, NoDoc, NoMessage,
                   << [t |-> "group", line |-> l,
                       group |-> findGroupForLine(parseDocument(text[d]), l)] >>)
    /\ UNCHANGED <<text, cursor, panel, handlers, awaiting, currentDocument,
                   currentGroup, html, nEdits, closed>>

NextParser ==
  \/ ParseBuffer
  \/ GroupForLine
  \/ ChangeText

\* the parser and findGroupForLine applied to the buffers of up to MaxLines
\* lines, before and after a change of a line
SpecParser == InitOn(ParserDocs) /\ [][NextParser]_vars

\* the parse a call of parseDocument has just returned
LastParse == cache[ev.doc][1]

\* C16: in every parse, the line of a group is less than the line of its
\* heading (if it has one) and than the line of its first data row, and the
\* lines of the groups increase in the order of the mapping.
GroupsOrdered ==
  ev.op = "parse" =>
    /\ \A k \in 1..Len(LastParse.groups) :
         LET g == LastParse.groups[k]
         IN /\ g.headingLine # -1 => g.line < g.headingLine
            /\ LinesOf(text[ev.doc], g, "data") # <<>> =>
                 g.line < LinesOf(text[ev.doc], g, "data")[1]
    /\ \A k \in 1..(Len(LastParse.groups) - 1) :
         LastParse.groups[k].line < LastParse.groups[k + 1].line

\* the name a line declares (Undefined if it declares none)
DeclaredName(line) == GroupMatch(Trim(line))

\* the lines (0-based, ascending) that declare a group
DeclarationLines(doc) ==
  SelectSeq([k \in 1..Len(doc) |-> k - 1],
            LAMBDA i : DeclaredName(doc[i + 1]) # Undefined)

\* the line of the last declaration of a name
LastDeclaration(doc, name) ==
  CHOOSE i \in 0..(Len(doc) - 1) :
    /\ DeclaredName(doc[i + 1]) = name
    /\ \A j \in (i + 1)..(Len(doc) - 1) : DeclaredName(doc[j + 1]) # name

\* the names declared, each once, in the order of their first declarations
NamesInFirstOrder(doc) ==
  LET decl == DeclarationLines(doc)
  IN [k \in 1..Len(SelectSeq(decl, LAMBDA i :
                     \A j \in 0..(i - 1) : DeclaredName(doc[j + 1]) # DeclaredName(doc[i + 1])))
        |-> DeclaredName(doc[SelectSeq(decl, LAMBDA i :
                     \A j \in 0..(i - 1) :
                       DeclaredName(doc[j + 1]) # DeclaredName(doc[i + 1]))[k] + 1])]

\* the lines (0-based, ascending) after declaration line i and before the
\* next declaration whose trimmed text starts with the quoted keyword
RowsAfter(doc, i, kw) ==
  SelectSeq([k \in 1..Len(doc) |-> k - 1],
            LAMBDA r : /\ r > i
                       /\ \A j \in (i + 1)..r : DeclaredName(doc[j + 1]) = Undefined
                       /\ MatchKeyword(Trim(doc[r + 1]), kw))

\* the fields after the keyword of the last of some lines (none if no line)
LastRowFields(doc, ls) ==
  IF ls = <<>> THEN <<>>
  ELSE Slice1(extractQuotedFields(Trim(doc[ls[Len(ls)] + 1])))

\* the Group of a name, read from the lines that follow its last declaration
GroupOfLastDeclaration(doc, name) ==
  LET i == LastDeclaration(doc, name)
      data == RowsAfter(doc, i, KwDATA)
  IN [name |-> name, line |-> i,
      headings |-> LastRowFields(doc, RowsAfter(doc, i, KwHEADING)),
      headingLine |-> IF RowsAfter(doc, i, KwHEADING) = <<>> THEN -1
                      ELSE RowsAfter(doc, i, KwHEADING)[Len(RowsAfter(doc, i, KwHEADING))],
      dataCount |-> Len(data),
      units |-> LastRowFields(doc, RowsAfter(doc, i, KwUNIT)),
      types |-> LastRowFields(doc, RowsAfter(doc, i, KwTYPE)),
      data |-> [k \in 1..Len(data) |->
                  Slice1(extractQuotedFields(Trim(doc[data[k] + 1])))]]

\* C17: the mapping of a parse holds one Group per declared name, in the
\* order of the first declarations of the names, and the Group of a name is
\* read only from the lines that follow the last declaration of the name:
\* the rows of an earlier block of the same name are in no Group.
LastDeclarationWins ==
  ev.op = "parse" =>
    LastParse.groups =
      [k \in 1..Len(NamesInFirstOrder(text[ev.doc])) |->
         GroupOfLastDeclaration(text[ev.doc], NamesInFirstOrder(text[ev.doc])[k])]

\* the buffer declares A with a data row, then C, then A again with no row:
\* the mapping is A, C, and A has the line of its second declaration and no
\* data row
LastDeclarationWinsWitness ==
  /\ ev.op = "parse" /\ ev.doc = "d1"
  /\ text["d1"] = << GroupA, Row(<<KwDATA, <<"1">>>>), GroupC, GroupA >>
  /\ Len(LastParse.groups) = 2
  /\ LastParse.groups[1].name = <<"A">> /\ LastParse.groups[1].line = 3
  /\ LastParse.groups[1].dataCount = 0 /\ LastParse.groups[1].data = <<>>
  /\ LastParse.groups[2].name = <<"C">> /\ LastParse.groups[2].line = 2

\* no name is declared on two lines of the buffer
NoNameDeclaredTwice(doc) ==
  \A i, j \in 1..Len(doc) :
    (i # j /\ DeclaredName(doc[i]) # Undefined) => DeclaredName(doc[i]) # DeclaredName(doc[j])

\* C16, amended: in every parse, the line of a group is less than the line
\* of its heading (if it has one) and than the line of its first data row,
\* no two groups have the same line, and the lines of the groups increase
\* in the order of the mapping when no name is declared twice.
GroupsOrderedUnlessRedeclared ==
  ev.op = "parse" =>
    /\ \A k \in 1..Len(LastParse.groups) :
         LET g == LastParse.groups[k]
         IN /\ g.headingLine # -1 => g.line < g.headingLine
            /\ LinesOf(text[ev.doc], g, "data") # <<>> =>
                 g.line < LinesOf(text[ev.doc], g, "data")[1]
    /\ \A k, l \in 1..Len(LastParse.groups) :
         k # l => LastParse.groups[k].line # LastParse.groups[l].line
    /\ NoNameDeclaredTwice(text[ev.doc]) =>
         \A k \in 1..(Len(LastParse.groups) - 1) :
           LastParse.groups[k].line < LastParse.groups[k + 1].line

\* the parse of a buffer of two blocks, the first with a heading and a data
\* row: A on line 0 with its heading on line 1, C on line 3
GroupsOrderedWitness ==
  /\ ev.op = "parse" /\ ev.doc = "d1"
  /\ text["d1"] = << GroupA, HeadingX, Row(<<KwDATA, <<"1">>>>), GroupC >>
  /\ Len(LastParse.groups) = 2
  /\ LastParse.groups[1].line = 0 /\ LastParse.groups[1].headingLine = 1
  /\ LastParse.groups[1].dataCount = 1
  /\ LastParse.groups[2].line = 3

\* a sequence in the opposite order
Reversed(seq) == [k \in 1..Len(seq) |-> seq[Len(seq) + 1 - k]]

\* C18: findGroupForLine returns the group with the greatest line that is
\* at most the queried line, none when the buffer has no group or every
\* group starts after the queried line, and the same for the mapping in the
\* opposite order.
GroupForLineIsGreatestBelow ==
  ev.op = "groupForLine" =>
    LET parsed == parseDocument(text[ev.doc])
        r == ev.out[1]
        below == { k \in 1..Len(parsed.groups) : parsed.groups[k].line <= r.line }
    IN /\ below = {} => r.group = Null
       /\ below # {} =>
            /\ r.group # Null
            /\ \E k \in below :
                 /\ r.group[1] = parsed.groups[k]
                 /\ \A j \in below : parsed.groups[j].line <= parsed.groups[k].line
       /\ findGroupForLine([parsed EXCEPT !.groups = Reversed(parsed.groups)], r.line)
            = r.group

\* in a buffer that declares A, C and A again, the mapping is A (line 2),
\* C (line 1); the group of line 2 is A, the first entry of the mapping
GroupForLineWitness ==
  /\ ev.op = "groupForLine" /\ ev.doc = "d1"
  /\ text["d1"] = << GroupA, GroupC, GroupA >>
  /\ parseDocument(text["d1"]).groups[2].line = 1
  /\ ev.out[1].line = 2
  /\ ev.out[1].group # Null
  /\ ev.out[1].group[1].name = <<"A">> /\ ev.out[1].group[1].line = 2

(***************************************************************************)
(* Column-at-position on drawn lines                                       *)
(***************************************************************************)
\* the fields after the keyword of the lines drawn, and their contents
MaxFields == 2

FieldContents == { <<>>, <<"1">>, <<COMMA>>, <<"a", COMMA, "b">> }

RECURSIVE FieldSeqs(_)
\* the sequences of no to n field contents
FieldSeqs(n) ==
  IF n = 0 THEN { <<>> }
  ELSE FieldSeqs(n - 1)
       \cup { Append(fs, f) : fs \in FieldSeqs(n - 1), f \in FieldContents }

\* the buffers of one data row
ColumnDocs == { << Row(<<KwDATA>> \o fs) >> : fs \in FieldSeqs(MaxFields) }

\* getColumnAtPosition called on a line of a buffer and a character offset
\* of it (0 to the length of the line); what is emitted is the result
ColumnAtPosition ==
  \E d \in Docs : \E l \in 0..(Len(text[d]) - 1) : \E c \in 0..Len(text[d][l + 1]) :
    /\ ev' = Event("column", d, NoDoc, NoMessage,
                   << [t |-> "column", line |-> l, character |-> c,
                       column |-> getColumnAtPosition(text[d][l + 1], c)] >>)
    /\ UNCHANGED <<text, cursor, panel, handlers, awaiting, currentDocument,
                   currentGroup, html, cache, nEdits, closed>>

NextColumn == ColumnAtPosition

\* getColumnAtPosition applied to the rows of up to MaxFields fields
SpecColumn == InitOn(ColumnDocs) /\ [][NextColumn]_vars

\* the commas among the first c characters of a line that have an even
\* number of double quotes before them
CommasOutsideQuotes(line, c) ==
  Cardinality({ i \in 1..c :
                  /\ line[i] = COMMA
                  /\ Len(SelectSeq(QuotesOf(line), LAMBDA q : q < i)) % 2 = 0 })

\* C19: on a line of quoted fields separated by single commas,
\* getColumnAtPosition returns k at every offset from the opening quote of
\* quoted field k to just after its closing quote, whatever the content of
\* the fields, and at every offset the number of the commas outside quoted
\* spans before the offset.
ColumnOfField ==
  ev.op = "column" =>
    LET line == text[ev.doc][ev.out[1].line + 1]
        c == ev.out[1].character
    IN /\ ev.out[1].column = CommasOutsideQuotes(line, c)
       /\ \A k \in 0..((Len(QuotesOf(line)) \div 2) - 1) :
            (QuotesOf(line)[2 * k + 1] - 1 <= c /\ c <= QuotesOf(line)[2 * k + 2]) =>
              ev.out[1].column = k

\* offset 10 of the row "DATA","a,b","1" is after the comma inside its
\* second quoted field: the column is 1; the row has three quoted fields
ColumnOfFieldWitness ==
  /\ ev.op = "column" /\ ev.doc = "d1"
  /\ text["d1"] = << Row(<<KwDATA, <<"a", COMMA, "b">>, <<"1">>>>) >>
  /\ Len(QuotesOf(text["d1"][1])) = 6
  /\ ev.out[1].character = 10
  /\ text["d1"][1][10] = COMMA
  /\ ev.out[1].column = 1

GEOL == <<"G","E","O","L">>
LOCA == <<"L","O","C","A">>
LOCA_ID == <<"L","O","C","A","_","I","D">>
LOCA_TYPE == <<"L","O","C","A","_","T","Y","P","E">>
LOCA_NATE == <<"L","O","C","A","_","N","A","T","E">>
LOCA_NATN == <<"L","O","C","A","_","N","A","T","N">>
LOCA_FDEP == <<"L","O","C","A","_","F","D","E","P">>
GEOL_TOP == <<"G","E","O","L","_","T","O","P">>
GEOL_BASE == <<"G","E","O","L","_","B","A","S","E">>

\* row[index]: Undefined when the row has no such element.  The empty
\* string and undefined are both the empty sequence: the code tests these
\* values for truthiness only.
FieldAt(row, index) ==
  IF index >= 0 /\ index < Len(row) THEN row[index + 1] ELSE Undefined

\* A number is an integer count of hundredths; NaN is the empty sequence and
\* a number n is <<n>>.  Infinity is greater than every finite number of the
\* model.
NaN == <<>>
Infinity == 1000000

DigitValue(c) ==
  CASE c = "0" -> 0 [] c = "1" -> 1 [] c = "2" -> 2 [] c = "3" -> 3
    [] c = "4" -> 4 [] c = "5" -> 5 [] c = "6" -> 6 [] c = "7" -> 7
    [] c = "8" -> 8 [] c = "9" -> 9

\* the 1-based position after the run of digits that starts at p
RECURSIVE DigitsEnd(_, _)
DigitsEnd(s, p) ==
  IF p <= Len(s) /\ s[p] \in Digits THEN DigitsEnd(s, p + 1) ELSE p

\* the value of the digits of s from position a to position b - 1
RECURSIVE DigitsValue(_, _, _)
DigitsValue(s, a, b) ==
  IF b <= a THEN 0
  ELSE 10 * DigitsValue(s, a, b - 1) + DigitValue(s[b - 1])

\* the hundredths of the fraction digits of s from position a to b - 1 (the
\* strings of the model have at most two)
Hundredths(s, a, b) ==
  IF b <= a THEN 0
  ELSE IF b = a + 1 THEN 10 * DigitValue(s[a])
  ELSE 10 * DigitValue(s[a]) + DigitValue(s[a + 1])

InfinityLiteral == <<"I","n","f","i","n","i","t","y">>

\* parseFloat: leading blanks, a sign, then the literal Infinity or the
\* longest prefix of digits with an optional fraction; what follows is
\* ignored, and NaN is returned when there is no digit.  (No string of the
\* model has an exponent.)
parseFloat(s) ==
  Let(SkipSpaces(s, 1), LAMBDA p0 :
  Let(IF p0 <= Len(s) /\ s[p0] = "-" THEN -1 ELSE 1, LAMBDA sign :
  Let(IF p0 <= Len(s) /\ s[p0] \in {"-", "+"} THEN p0 + 1 ELSE p0, LAMBDA p1 :
  IF /\ p1 + Len(InfinityLiteral) - 1 <= Len(s)
     /\ SubSeq(s, p1, p1 + Len(InfinityLiteral) - 1) = InfinityLiteral
    THEN <<sign * Infinity>>
  ELSE Let(DigitsEnd(s, p1), LAMBDA e1 :
       Let(IF e1 <= Len(s) /\ s[e1] = "." THEN DigitsEnd(s, e1 + 1) ELSE e1,
           LAMBDA e2 :
       IF e1 = p1 /\ e2 <= e1 + 1 THEN NaN
       ELSE <<sign * (100 * DigitsValue(s, p1, e1) + Hundredths(s, e1 + 1, e2))>>)))))

\* Math.min and Math.max of a number and a value that may be NaN, as the
\* code applies them: NaN leaves the number as it is
MinWith(m, v) == IF v = NaN THEN m ELSE IF v[1] < m THEN v[1] ELSE m
MaxWith(m, v) == IF v = NaN THEN m ELSE IF v[1] > m THEN v[1] ELSE m

\* the first loop of generateSummary --------------------------------------
\* groupCounts before the sort: the name and the dataCount of every group
groupCountsOf(parsed) ==
  [k \in 1..Len(parsed.groups) |->
     [name |-> parsed.groups[k].name, count |-> parsed.groups[k].dataCount]]

\* every group counted as one record
RECURSIVE CountGroupsFrom(_, _)
CountGroupsFrom(groups, k) ==
  IF k > Len(groups) THEN 0 ELSE 1 + CountGroupsFrom(groups, k + 1)

\* totalRecords += group.dataCount, from group k on
RECURSIVE TotalRecordsFrom(_, _)
TotalRecordsFrom(groups, k) ==
  IF k > Len(groups) THEN 0
  ELSE groups[k].dataCount + TotalRecordsFrom(groups, k + 1)

\* recordsByLocation is the sequence of its entries in key order, an entry
\* being the identifier and the sequence, in key order, of the group names
\* with their counts.
\* locationGroups.set(groupName, (locationGroups.get(groupName) || 0) + 1)
BumpGroup(counts, groupName) ==
  IF \E k \in 1..Len(counts) : counts[k].name = groupName
    THEN [k \in 1..Len(counts) |->
            IF counts[k].name = groupName
              THEN [counts[k] EXCEPT !.count = counts[k].count + 1]
              ELSE counts[k]]
    ELSE Append(counts, [name |-> groupName, count |-> 1])

\* the body of the loop over the rows of a group: if (locaId) { ... }
TallyRow(records, locaId, groupName) ==
  IF locaId = Undefined THEN records
  ELSE IF \E k \in 1..Len(records) : records[k].id = locaId
    THEN [k \in 1..Len(records) |->
            IF records[k].id = locaId
              THEN [records[k] EXCEPT !.groups = BumpGroup(records[k].groups, groupName)]
              ELSE records[k]]
    ELSE Append(records, [id |-> locaId, groups |-> BumpGroup(<<>>, groupName)])

RECURSIVE TallyRowsFrom(_, _, _, _)
TallyRowsFrom(records, group, locaIdIndex, r) ==
  IF r > Len(group.data) THEN records
  ELSE TallyRowsFrom(TallyRow(records, FieldAt(group.data[r], locaIdIndex), group.name),
                     group, locaIdIndex, r + 1)

RECURSIVE TallyGroupsFrom(_, _, _)
TallyGroupsFrom(records, groups, k) ==
  IF k > Len(groups) THEN records
  ELSE Let(indexOf(groups[k].headings, LOCA_ID), LAMBDA locaIdIndex :
       TallyGroupsFrom(IF locaIdIndex >= 0
                         THEN TallyRowsFrom(records, groups[k], locaIdIndex, 1)
                         ELSE records,
                       groups, k + 1))

recordsByLocationOf(parsed) == TallyGroupsFrom(<<>>, parsed.groups, 1)

\* groupCounts.sort((a, b) => b.count - a.count) ---------------------------
\* the element put before the elements that do not precede it
InsertBeforeEqual(sorted, x) ==
  Let(Len(SelectSeq(sorted, LAMBDA y : y.count > x.count)), LAMBDA n :
  SubSeq(sorted, 1, n) \o <<x>> \o SubSeq(sorted, n + 1, Len(sorted)))

\* Array.prototype.sort is stable: an element is put after the elements
\* that do not follow it in the order.
InsertByCount(sorted, x) ==
  Let(Len(SelectSeq(sorted, LAMBDA y : y.count >= x.count)), LAMBDA n :
  SubSeq(sorted, 1, n) \o <<x>> \o SubSeq(sorted, n + 1, Len(sorted)))

RECURSIVE SortFrom(_, _, _)
SortFrom(sorted, arr, k) ==
  IF k > Len(arr) THEN sorted
  ELSE SortFrom(InsertByCount(sorted, arr[k]), arr, k + 1)

sortByCountDescending(arr) == SortFrom(<<>>, arr, 1)

\* the depth ranges of the GEOL group -------------------------------------
\* depthRangesByLocation is the sequence of its entries in key order
RangeOf(ranges, id) ==
  SelectSeq(ranges, LAMBDA r : r.id = id)

RangeSet(ranges, r) ==
  IF \E k \in 1..Len(ranges) : ranges[k].id = r.id
    THEN [k \in 1..Len(ranges) |-> IF ranges[k].id = r.id THEN r ELSE ranges[k]]
    ELSE Append(ranges, r)

\* the body of the loop over the rows of GEOL
DepthRow(ranges, row, locaIdIndex, topIndex, baseIndex) ==
  Let(FieldAt(row, locaIdIndex), LAMBDA locaId :
  Let(IF topIndex >= 0 THEN parseFloat(FieldAt(row, topIndex)) ELSE NaN, LAMBDA top :
  Let(IF baseIndex >= 0 THEN parseFloat(FieldAt(row, baseIndex)) ELSE NaN, LAMBDA base :
  IF locaId = Undefined THEN ranges
  ELSE Let(RangeOf(ranges, locaId), LAMBDA existing :
       Let(MinWith(MinWith(IF existing # <<>> THEN existing[1].min ELSE Infinity, top),
                   base), LAMBDA min :
       Let(MaxWith(MaxWith(IF existing # <<>> THEN existing[1].max ELSE -Infinity, top),
                   base), LAMBDA max :
       IF min # Infinity \/ max # -Infinity
         THEN RangeSet(ranges, [id |-> locaId,
                                min |-> IF min = Infinity THEN 0 ELSE min,
                                max |-> IF max = -Infinity THEN 0 ELSE max])
         ELSE ranges))))))

RECURSIVE DepthRowsFrom(_, _, _, _, _, _)
DepthRowsFrom(ranges, data, r, locaIdIndex, topIndex, baseIndex) ==
  IF r > Len(data) THEN ranges
  ELSE DepthRowsFrom(DepthRow(ranges, data[r], locaIdIndex, topIndex, baseIndex),
                     data, r + 1, locaIdIndex, topIndex, baseIndex)

depthRangesByLocationOf(parsed) ==
  IF ~MapHas(parsed.groups, GEOL) THEN <<>>
  ELSE Let(MapGet(parsed.groups, GEOL), LAMBDA geolGroup :
       Let(indexOf(geolGroup.headings, LOCA_ID), LAMBDA locaIdIndex :
       Let(indexOf(geolGroup.headings, GEOL_TOP), LAMBDA topIndex :
       Let(indexOf(geolGroup.headings, GEOL_BASE), LAMBDA baseIndex :
       IF locaIdIndex >= 0 /\ (topIndex >= 0 \/ baseIndex >= 0)
         THEN DepthRowsFrom(<<>>, geolGroup.data, 1, locaIdIndex, topIndex, baseIndex)
         ELSE <<>>))))

\* the loop over the rows of the LOCA group --------------------------------
\* An optional number (depthMin, depthMax) is the empty sequence or <<n>>.
\* locationsByType is the sequence of its entries in key order.
\* the entry of an existing type with the bounds of the location assigned,
\* a location without a range clearing them
FoldTypeAssigning(byType, type, depthRange) ==
  IF \E k \in 1..Len(byType) : byType[k].type = type
    THEN [k \in 1..Len(byType) |->
            IF byType[k].type # type THEN byType[k]
            ELSE [type |-> type, count |-> byType[k].count + 1,
                  depthMin |-> IF depthRange = <<>> THEN <<>> ELSE <<depthRange[1].min>>,
                  depthMax |-> IF depthRange = <<>> THEN <<>> ELSE <<depthRange[1].max>>]]
    ELSE Append(byType,
           [type |-> type, count |-> 1,
            depthMin |-> IF depthRange = <<>> THEN <<>> ELSE <<depthRange[1].min>>,
            depthMax |-> IF depthRange = <<>> THEN <<>> ELSE <<depthRange[1].max>>])

\* if (type) { ... }: the location folded into the entry of its type
FoldType(byType, type, depthRange) ==
  IF \E k \in 1..Len(byType) : byType[k].type = type
    THEN [k \in 1..Len(byType) |->
            IF byType[k].type # type THEN byType[k]
            ELSE IF depthRange = <<>>
              THEN [byType[k] EXCEPT !.count = byType[k].count + 1]
              ELSE [type |-> type, count |-> byType[k].count + 1,
                    depthMin |-> <<MinWith(depthRange[1].min, byType[k].depthMin)>>,
                    depthMax |-> <<MaxWith(depthRange[1].max, byType[k].depthMax)>>]]
    ELSE Append(byType,
           [type |-> type, count |-> 1,
            depthMin |-> IF depthRange = <<>> THEN <<>> ELSE <<depthRange[1].min>>,
            depthMax |-> IF depthRange = <<>> THEN <<>> ELSE <<depthRange[1].max>>])


OptMin(depthRange) == IF depthRange = <<>> THEN <<>> ELSE <<depthRange[1].min>>
OptMax(depthRange) == IF depthRange = <<>> THEN <<>> ELSE <<depthRange[1].max>>

\* the LocationInfo pushed for a row of LOCA
\* idx holds the indices of the five columns in the headings of LOCA
LocationOf(row, ranges, idx) ==
  Let(RangeOf(ranges, FieldAt(row, idx.id)), LAMBDA depthRange :
  [id |-> FieldAt(row, idx.id),
   easting |-> FieldAt(row, idx.easting),
   northing |-> FieldAt(row, idx.northing),
   type |-> FieldAt(row, idx.type),
   finalDepth |-> FieldAt(row, idx.finalDepth),
   depthMin |-> OptMin(depthRange),
   depthMax |-> OptMax(depthRange)])

\* the locations with the row of an identifier already listed left out
PushOnce(locations, loc) ==
  IF loc.id = Undefined \/ \E k \in 1..Len(locations) : locations[k].id = loc.id
    THEN locations
    ELSE Append(locations, loc)

\* if (id) { locations.push(...) }
PushLocation(locations, loc) ==
  IF loc.id = Undefined THEN locations ELSE Append(locations, loc)

\* if (id) { ... if (type) { ... } }
AggregateType(byType, loc, ranges) ==
  IF loc.id = Undefined \/ loc.type = Undefined THEN byType
  ELSE FoldType(byType, loc.type, RangeOf(ranges, loc.id))

\* the loop over the rows of LOCA from row r on; acc holds locations and
\* locationsByType
RECURSIVE LocaRowsFrom(_, _, _, _, _)
LocaRowsFrom(acc, locaGroup, ranges, idx, r) ==
  IF r > Len(locaGroup.data) THEN acc
  ELSE Let(LocationOf(locaGroup.data[r], ranges, idx), LAMBDA loc :
       LocaRowsFrom([locations |-> PushLocation(acc.locations, loc),
                     byType |-> AggregateType(acc.byType, loc, ranges)],
                    locaGroup, ranges, idx, r + 1))

locationsOf(parsed, ranges) ==
  IF ~MapHas(parsed.groups, LOCA) THEN [locations |-> <<>>, byType |-> <<>>]
  ELSE Let(MapGet(parsed.groups, LOCA), LAMBDA locaGroup :
       LocaRowsFrom([locations |-> <<>>, byType |-> <<>>], locaGroup, ranges,
                    [id |-> indexOf(locaGroup.headings, LOCA_ID),
                     easting |-> indexOf(locaGroup.headings, LOCA_NATE),
                     northing |-> indexOf(locaGroup.headings, LOCA_NATN),
                     type |-> indexOf(locaGroup.headings, LOCA_TYPE),
                     finalDepth |-> indexOf(locaGroup.headings, LOCA_FDEP)],
                    1))

\* the AGSSummary of a parse
generateSummary(parsed) ==
  Let(locationsOf(parsed, depthRangesByLocationOf(parsed)), LAMBDA loca :
  [totalGroups |-> Len(parsed.groups),
   totalRecords |-> TotalRecordsFrom(parsed.groups, 1),
   groupCounts |-> sortByCountDescending(groupCountsOf(parsed)),
   locations |-> loca.locations,
   locationsByType |-> loca.byType,
   recordsByLocation |-> recordsByLocationOf(parsed)])


\* the command ags.showFileSummary, the active editor showing buffer d: the
\* buffer is parsed and summarised; what is emitted is the summary the
\* report is written from
ShowSummary ==
  \E d \in Docs \ closed :
    /\ cache' = [cache EXCEPT ![d] = <<parseDocument(text[d])>>]
    /\ ev' = Event("summary", d, NoDoc, NoMessage,
                   << [t |-> "summary",
                       summary |-> generateSummary(parseDocument(text[d]))] >>)
    /\ UNCHANGED <<text, cursor, panel, handlers, awaiting, currentDocument,
                   currentGroup, html, nEdits, closed>>

\* the buffers summarised ---------------------------------------------------
MaxLocaRows == 3
MaxGeolRows == 2

B1 == <<"B","1">>
B2 == <<"B","2">>
B3 == <<"B","3">>
BH == <<"B","H">>
TP == <<"T","P">>

RECURSIVE SeqsUpTo(_, _)
\* the sequences of no to n elements of S
SeqsUpTo(S, n) ==
  IF n = 0 THEN { <<>> }
  ELSE SeqsUpTo(S, n - 1) \cup { Append(s, x) : s \in SeqsUpTo(S, n - 1), x \in S }

DataRows(rows) == [k \in 1..Len(rows) |-> Row(<<KwDATA>> \o rows[k])]

ProjBlock ==
  << Row(<<KwGROUP, <<"P","R","O","J">>>>),
     Row(<<KwHEADING, <<"P","R","O","J","_","I","D">>>>),
     Row(<<KwDATA, <<"P">>>>) >>

LocaBlock(rows) ==
  << Row(<<KwGROUP, LOCA>>), Row(<<KwHEADING, LOCA_ID, LOCA_TYPE>>) >> \o DataRows(rows)

GeolBlock(rows) ==
  << Row(<<KwGROUP, GEOL>>), Row(<<KwHEADING, LOCA_ID, GEOL_TOP, GEOL_BASE>>) >>
  \o DataRows(rows)

\* the rows of LOCA: identifier (B3 has no row in GEOL) and type
LocaRows == { <<id, type>> : id \in {<<>>, B1, B2, B3}, type \in {<<>>, BH, TP} }

\* the rows of GEOL: identifier, top and base
TopTexts ==
  { <<>>, <<"0">>, <<"1",".","5">>, <<"x">>, <<"3","m">>,
    <<"I","n","f","i","n","i","t","y">> }
BaseTexts == { <<>>, <<"3">>, <<"x">> }
GeolRows ==
  { <<id, top, base>> : id \in {<<>>, B1, B2}, top \in TopTexts, base \in BaseTexts }

\* the locations vary, the depths are fixed
LocationDocs ==
  { ProjBlock \o LocaBlock(rows)
      \o GeolBlock(<< <<B1, <<"0">>, <<"3">>>>, <<B2, <<"1",".","5">>, <<"5">>>> >>) :
    rows \in SeqsUpTo(LocaRows, MaxLocaRows) }

\* the depths vary, the locations are fixed
DepthDocs ==
  { ProjBlock \o LocaBlock(<< <<B1, BH>>, <<B2, BH>> >>) \o GeolBlock(rows) :
    rows \in SeqsUpTo(GeolRows, MaxGeolRows) }

\* GEOL before LOCA; LOCA without its identifier column; GEOL without its
\* depth columns; no group
OtherSummaryDocs ==
  { GeolBlock(<< <<B2, <<"0">>, <<"3">>>>, <<B1, <<>>, <<"3">>>> >>)
      \o LocaBlock(<< <<B1, BH>>, <<B2, TP>> >>),
    << Row(<<KwGROUP, LOCA>>), Row(<<KwHEADING, LOCA_TYPE>>), Row(<<KwDATA, BH>>) >>,
    LocaBlock(<< <<B1, BH>> >>)
      \o << Row(<<KwGROUP, GEOL>>), Row(<<KwHEADING, LOCA_ID>>), Row(<<KwDATA, B1>>) >>,
    << Row(<<KwDATA, B1>>) >> }

SummaryDocs == LocationDocs \cup DepthDocs \cup OtherSummaryDocs

NextSummary ==
  \/ ShowSummary

\* showFileSummary applied to the buffers above
SpecSummary == InitOn(SummaryDocs) /\ [][NextSummary]_vars

\* the summary a call of generateSummary has just returned, and the parse
\* it was computed from
LastSummary == ev.out[1].summary
Summarised == ev.op = "summary" /\ ev.doc = "d1"


(***************************************************************************)
(* Claims on the Summary Aggregator                                        *)
(***************************************************************************)
RECURSIVE SumSeq(_)
\* the sum of a sequence of numbers
SumSeq(s) == IF s = <<>> THEN 0 ELSE Head(s) + SumSeq(Tail(s))

\* the groups of the parse of the first k lines of a buffer
GroupsAfter(doc, k) == parseDocument(SubSeq(doc, 1, k)).groups

\* C21: the total record count of a summary is the sum of dataCount over
\* the groups of the mapping, the sum of the counts of the per-group count
\* list and the number of rows held in data; and after every line of the
\* parse the dataCount of every group is the number of its rows.
CountInvariant ==
  Summarised =>
    LET groups == cache["d1"][1].groups
        s == LastSummary
        doc == text["d1"]
    IN /\ s.totalRecords = SumSeq([k \in 1..Len(groups) |-> groups[k].dataCount])
       /\ s.totalRecords = SumSeq([k \in 1..Len(s.groupCounts) |-> s.groupCounts[k].count])
       /\ s.totalRecords = SumSeq([k \in 1..Len(groups) |-> Len(groups[k].data)])
       /\ \A n \in 0..Len(doc) :
            LET after == GroupsAfter(doc, n)
            IN \A k \in 1..Len(after) : after[k].dataCount = Len(after[k].data)

\* C21 witness: a summary of three groups holding six rows
CountInvariantWitness ==
  /\ Summarised
  /\ Len(cache["d1"][1].groups) = 3
  /\ LastSummary.totalRecords = 6
  /\ \E k \in 1..3 : cache["d1"][1].groups[k].dataCount = 3


\* the rows of GEOL that carry an identifier, and the numbers their top and
\* base fields hold (the fields parseFloat reads a number from)
GeolRowsOf(parsed, id) ==
  IF ~MapHas(parsed.groups, GEOL) THEN <<>>
  ELSE LET g == MapGet(parsed.groups, GEOL)
       IN SelectSeq(g.data,
            LAMBDA row : /\ indexOf(g.headings, LOCA_ID) >= 0
                         /\ FieldAt(row, indexOf(g.headings, LOCA_ID)) = id)

GeolIds(parsed) ==
  IF ~MapHas(parsed.groups, GEOL) THEN {}
  ELSE LET g == MapGet(parsed.groups, GEOL)
       IN { FieldAt(g.data[r], indexOf(g.headings, LOCA_ID)) : r \in 1..Len(g.data) }
          \ {Undefined}

DepthValues(parsed, id) ==
  LET g == MapGet(parsed.groups, GEOL)
      rows == GeolRowsOf(parsed, id)
      at(row, heading) ==
        IF indexOf(g.headings, heading) >= 0
          THEN parseFloat(FieldAt(row, indexOf(g.headings, heading))) ELSE NaN
  IN { v[1] : v \in ({ at(rows[r], GEOL_TOP) : r \in 1..Len(rows) }
                     \cup { at(rows[r], GEOL_BASE) : r \in 1..Len(rows) }) \ {NaN} }

SetMin(S) == CHOOSE x \in S : \A y \in S : x <= y
SetMax(S) == CHOOSE x \in S : \A y \in S : x >= y

\* C22: for every location identifier the depth range is the minimum and
\* the maximum of the numeric top and base values of the rows of GEOL that
\* carry the identifier, and an identifier whose rows supply no numeric
\* value has no range.
DepthRangeIsMinMax ==
  Summarised =>
    LET parsed == cache["d1"][1]
        ranges == depthRangesByLocationOf(parsed)
    IN /\ \A k \in 1..Len(ranges) : ranges[k].id \in GeolIds(parsed)
       /\ \A id \in GeolIds(parsed) :
            LET vals == DepthValues(parsed, id)
            IN RangeOf(ranges, id) =
                 IF vals = {} THEN <<>>
                 ELSE << [id |-> id, min |-> SetMin(vals), max |-> SetMax(vals)] >>

\* the same on the buffers in which no depth field reads as an infinite
\* number
NoInfiniteDepth ==
  \A id \in GeolIds(cache["d1"][1]) :
    DepthValues(cache["d1"][1], id) \cap {Infinity, -Infinity} = {}

DepthRangeOfFiniteValues ==
  (Summarised /\ NoInfiniteDepth) =>
    LET parsed == cache["d1"][1]
        ranges == depthRangesByLocationOf(parsed)
    IN /\ \A k \in 1..Len(ranges) : ranges[k].id \in GeolIds(parsed)
       /\ \A id \in GeolIds(parsed) :
            LET vals == DepthValues(parsed, id)
            IN RangeOf(ranges, id) =
                 IF vals = {} THEN <<>>
                 ELSE << [id |-> id, min |-> SetMin(vals), max |-> SetMax(vals)] >>


\* the rows of LOCA, and the identifier and the type of a row
LocaData(parsed) ==
  IF MapHas(parsed.groups, LOCA) THEN MapGet(parsed.groups, LOCA).data ELSE <<>>

LocaIdOf(parsed, row) ==
  FieldAt(row, indexOf(MapGet(parsed.groups, LOCA).headings, LOCA_ID))

LocaTypeOf(parsed, row) ==
  FieldAt(row, indexOf(MapGet(parsed.groups, LOCA).headings, LOCA_TYPE))

\* the rows of LOCA with an identifier and the given type
RowsOfType(parsed, type) ==
  SelectSeq(LocaData(parsed),
            LAMBDA row : LocaIdOf(parsed, row) # Undefined /\ LocaTypeOf(parsed, row) = type)

\* the depth ranges of the locations of the rows
RangesOfRows(parsed, rows) ==
  { r[1] : r \in { RangeOf(depthRangesByLocationOf(parsed), LocaIdOf(parsed, rows[k])) :
                   k \in 1..Len(rows) } \ {<<>>} }

\* C23: for every location type, the count of its aggregate is the number
\* of rows of LOCA with an identifier and that type, and its depth range is
\* the minimum of the minima and the maximum of the maxima of the locations
\* of these rows that have a range (no range when none has one), in any row
\* order.
TypeRollup ==
  Summarised =>
    LET parsed == cache["d1"][1]
        byType == LastSummary.locationsByType
        types == { LocaTypeOf(parsed, LocaData(parsed)[k]) : k \in 1..Len(LocaData(parsed)) }
                 \ {Undefined}
    IN /\ \A k \in 1..Len(byType) : Len(RowsOfType(parsed, byType[k].type)) > 0
       /\ \A j, k \in 1..Len(byType) : byType[j].type = byType[k].type => j = k
       /\ \A type \in types :
            LET rows == RowsOfType(parsed, type)
                rs == RangesOfRows(parsed, rows)
            IN rows # <<>> =>
                 \E k \in 1..Len(byType) :
                   /\ byType[k].type = type
                   /\ byType[k].count = Len(rows)
                   /\ byType[k].depthMin =
                        IF rs = {} THEN <<>> ELSE << SetMin({ r.min : r \in rs }) >>
                   /\ byType[k].depthMax =
                        IF rs = {} THEN <<>> ELSE << SetMax({ r.max : r \in rs }) >>

\* C23 witness: three locations of one type, the second of them without a
\* depth range; the aggregate spans the ranges of the other two
TypeRollupWitness ==
  /\ Summarised
  /\ Len(LocaData(cache["d1"][1])) = 3
  /\ LocaIdOf(cache["d1"][1], LocaData(cache["d1"][1])[2]) = B3
  /\ LastSummary.locationsByType = << [type |-> BH, count |-> 3,
                                       depthMin |-> <<0>>, depthMax |-> <<500>>] >>


\* C24: the location inventory has exactly one entry per distinct non-empty
\* identifier of the rows of LOCA: every such identifier has an entry and
\* no identifier has two.
OneEntryPerIdentifier ==
  Summarised =>
    LET parsed == cache["d1"][1]
        locations == LastSummary.locations
    IN /\ { locations[k].id : k \in 1..Len(locations) }
            = { LocaIdOf(parsed, LocaData(parsed)[r]) : r \in 1..Len(LocaData(parsed)) }
              \ {Undefined}
       /\ \A j, k \in 1..Len(locations) : locations[j].id = locations[k].id => j = k

\* the rows of LOCA that have an identifier, in row order
IdentifiedRows(parsed) ==
  SelectSeq(LocaData(parsed), LAMBDA row : LocaIdOf(parsed, row) # Undefined)

\* C25: the location inventory has one entry per row of LOCA with a
\* non-empty identifier, in row order, none for the other rows, and every
\* entry carries the identifier and type of its row and the depth range of
\* its identifier, absent when the identifier has none.
OneEntryPerRow ==
  Summarised =>
    LET parsed == cache["d1"][1]
        locations == LastSummary.locations
        rows == IdentifiedRows(parsed)
    IN /\ Len(locations) = Len(rows)
       /\ \A k \in 1..Len(rows) :
            LET range == RangeOf(depthRangesByLocationOf(parsed), LocaIdOf(parsed, rows[k]))
            IN /\ locations[k].id = LocaIdOf(parsed, rows[k])
               /\ locations[k].type = LocaTypeOf(parsed, rows[k])
               /\ locations[k].depthMin = IF range = <<>> THEN <<>> ELSE <<range[1].min>>
               /\ locations[k].depthMax = IF range = <<>> THEN <<>> ELSE <<range[1].max>>

\* C25 witness: of three rows the second has no identifier; the inventory
\* lists the first and the third, the third (B3, repeated or not) without a
\* depth range and the first with its range
OneEntryPerRowWitness ==
  /\ Summarised
  /\ Len(LocaData(cache["d1"][1])) = 3
  /\ LocaIdOf(cache["d1"][1], LocaData(cache["d1"][1])[2]) = Undefined
  /\ Len(LastSummary.locations) = 2
  /\ LastSummary.locations[1].id = B1
  /\ LastSummary.locations[1].depthMin = <<0>>
  /\ LastSummary.locations[1].depthMax = <<300>>
  /\ LastSummary.locations[2].id = B3
  /\ LastSummary.locations[2].depthMin = <<>>


\* the identifier fields of the rows of a group that has the identifier
\* column, in row order (none for a group without the column)
IdFields(group) ==
  IF indexOf(group.headings, LOCA_ID) >= 0
    THEN [r \in 1..Len(group.data) |->
            FieldAt(group.data[r], indexOf(group.headings, LOCA_ID))]
    ELSE <<>>

RECURSIVE IdFieldsFrom(_, _)
\* the identifier fields met scanning the groups from group k on
IdFieldsFrom(groups, k) ==
  IF k > Len(groups) THEN <<>>
  ELSE IdFields(groups[k]) \o IdFieldsFrom(groups, k + 1)

RECURSIVE FirstOccurrences(_)
\* a sequence with every element kept where it occurs first
FirstOccurrences(s) ==
  IF s = <<>> THEN <<>>
  ELSE LET init == FirstOccurrences(SubSeq(s, 1, Len(s) - 1))
       IN IF \E k \in 1..Len(init) : init[k] = s[Len(s)]
            THEN init ELSE Append(init, s[Len(s)])

\* recordsByLocation[id][G], 0 when there is no such entry
TallyOf(records, id, name) ==
  LET e == SelectSeq(records, LAMBDA x : x.id = id)
      c == IF e = <<>> THEN <<>> ELSE SelectSeq(e[1].groups, LAMBDA y : y.name = name)
  IN IF c = <<>> THEN 0 ELSE c[1].count

\* the sum over the identifiers of recordsByLocation[id][G]
TallySum(records, name) ==
  SumSeq([k \in 1..Len(records) |-> TallyOf(records, records[k].id, name)])

\* C26: for every group with the identifier column every data row is
\* tallied: recordsByLocation[id][G] is the number of rows of G whose
\* identifier field is id, and these counts sum to the record count of G;
\* a group without the column has no tally; the keys are in the order in
\* which the identifiers are first met scanning groups, then rows.
TallyEveryRow ==
  Summarised =>
    LET groups == cache["d1"][1].groups
        records == LastSummary.recordsByLocation
    IN /\ \A k \in 1..Len(groups) :
            LET ids == IdFields(groups[k])
            IN /\ \A id \in { ids[r] : r \in 1..Len(ids) } :
                    TallyOf(records, id, groups[k].name)
                      = Len(SelectSeq(ids, LAMBDA x : x = id))
               /\ indexOf(groups[k].headings, LOCA_ID) >= 0
                    => TallySum(records, groups[k].name) = groups[k].dataCount
               /\ indexOf(groups[k].headings, LOCA_ID) < 0
                    => TallySum(records, groups[k].name) = 0
       /\ [k \in 1..Len(records) |-> records[k].id]
            = FirstOccurrences(IdFieldsFrom(groups, 1))

\* the same for the rows that have an identifier: the counts of a group sum
\* to the number of its rows with a non-empty identifier
TallyIdentifiedRows ==
  Summarised =>
    LET groups == cache["d1"][1].groups
        records == LastSummary.recordsByLocation
    IN /\ \A k \in 1..Len(groups) :
            LET ids == SelectSeq(IdFields(groups[k]), LAMBDA x : x # Undefined)
            IN /\ \A id \in { ids[r] : r \in 1..Len(ids) } :
                    TallyOf(records, id, groups[k].name)
                      = Len(SelectSeq(ids, LAMBDA x : x = id))
               /\ TallySum(records, groups[k].name) = Len(ids)
       /\ \A k \in 1..Len(records) : records[k].id # Undefined
       /\ [k \in 1..Len(records) |-> records[k].id]
            = FirstOccurrences(SelectSeq(IdFieldsFrom(groups, 1), LAMBDA x : x # Undefined))


\* C27: the per-group count list holds every group of the mapping once
\* with its record count, in descending order of count, and groups with
\* equal counts are in the order of the mapping.
CountsSortedStable ==
  Summarised =>
    LET groups == cache["d1"][1].groups
        counts == LastSummary.groupCounts
    IN /\ Len(counts) = Len(groups)
       /\ \A k \in 1..Len(groups) :
            \E j \in 1..Len(counts) :
              counts[j] = [name |-> groups[k].name, count |-> groups[k].dataCount]
       /\ \A j, k \in 1..Len(counts) : counts[j].name = counts[k].name => j = k
       /\ \A j, k \in 1..Len(counts) :
            j < k => /\ counts[j].count >= counts[k].count
                     /\ counts[j].count = counts[k].count
                          => MapIndex(groups, counts[j].name) < MapIndex(groups, counts[k].name)

\* C27 witness: the third group of the mapping has the most rows and comes
\* first; the other two have one row each and keep their order
CountsSortedStableWitness ==
  /\ Summarised
  /\ LastSummary.groupCounts
       = << [name |-> GEOL, count |-> 2],
            [name |-> <<"P","R","O","J">>, count |-> 1],
            [name |-> LOCA, count |-> 1] >>


(***************************************************************************)
(* Claims on the Field Extractor                                           *)
(***************************************************************************)
MaxChars == 6

RECURSIVE StringsUpTo(_, _)
\* the strings of no to n characters of an alphabet
StringsUpTo(alphabet, n) ==
  IF n = 0 THEN { <<>> }
  ELSE StringsUpTo(alphabet, n - 1)
       \cup { Append(s, c) : s \in StringsUpTo(alphabet, n - 1), c \in alphabet }

\* the buffers of one line of quotes, commas and letters
ExtractDocs == { <<l>> : l \in StringsUpTo({QUOTE, COMMA, "a"}, MaxChars) }

\* extractQuotedFields called on a line of a buffer; what is emitted is the
\* result
ExtractFields ==
  \E d \in Docs : \E l \in 0..(Len(text[d]) - 1) :
    /\ ev' = Event("extract", d, NoDoc, NoMessage,
                   << [t |-> "fields", line |-> l,
                       fields |-> extractQuotedFields(text[d][l + 1])] >>)
    /\ UNCHANGED <<text, cursor, panel, handlers, awaiting, currentDocument,
                   currentGroup, html, cache, nEdits, closed>>

NextExtract ==
  \/ ExtractFields

\* the extractor applied to the lines of up to MaxChars characters
SpecExtract == InitOn(ExtractDocs) /\ [][NextExtract]_vars

\* C28: the fields of a line are, in order, the contents between its 1st
\* and 2nd, 3rd and 4th, ... double quotes; nothing else of the line is in
\* the result, and after an odd number of quotes the text that follows the
\* last one gives no field.
FieldsAreQuotePairs ==
  ev.op = "extract" =>
    LET line == text[ev.doc][ev.out[1].line + 1]
        quotes == QuotesOf(line)
        fields == ev.out[1].fields
    IN /\ Len(fields) = Len(quotes) \div 2
       /\ \A k \in 1..Len(fields) :
            fields[k] = SubSeq(line, quotes[2 * k - 1] + 1, quotes[2 * k] - 1)

\* C28 witness: the line ,"",a"a has three quotes, an empty field, text
\* outside the pair and text after the unpaired quote; the result is the
\* one empty field
FieldsAreQuotePairsWitness ==
  /\ ev.op = "extract"
  /\ ev.doc = "d1"
  /\ text["d1"][1] = <<COMMA, QUOTE, QUOTE, "a", QUOTE, "a">>
  /\ ev.out[1].fields = << <<>> >>


(***************************************************************************)
(* Claims on the format version                                            *)
(***************************************************************************)
MaxTranLines == 4

GroupTran == Row(<<KwGROUP, TRAN>>)
HeadingAgs == Row(<<KwHEADING, <<"X">>, TRAN_AGS>>)

\* a declaration of TRAN and of another group, a heading with and without
\* the version column, and data rows whose version field is 4, 3, empty or
\* missing
VersionLines ==
  { GroupTran, GroupA, HeadingAgs, HeadingX,
    Row(<<KwDATA, <<"1">>, <<"4">>>>), Row(<<KwDATA, <<"1">>, <<"3">>>>),
    Row(<<KwDATA, <<"1">>, <<>>>>), Row(<<KwDATA, <<"1">>>>) }

VersionDocs == SeqsUpTo(VersionLines, MaxTranLines) \ { <<>> }

NextVersion ==
  \/ ParseBuffer

\* the parser applied to the buffers of up to MaxTranLines of these lines
SpecVersion == InitOn(VersionDocs) /\ [][NextVersion]_vars

\* C29: after a parse, when the headings of the group TRAN of the mapping
\* contain TRAN_AGS and the group has a data row, the version is the value
\* of that column in its last data row, empty or not; otherwise (no group
\* TRAN, no such column or no row) there is no version.
VersionIsLastValue ==
  ev.op = "parse" =>
    LET parsed == LastParse
        tran == MapGet(parsed.groups, TRAN)
    IN IF /\ MapHas(parsed.groups, TRAN)
          /\ indexOf(tran.headings, TRAN_AGS) >= 0
          /\ tran.data # <<>>
         THEN parsed.version
                = FieldAt(tran.data[Len(tran.data)], indexOf(tran.headings, TRAN_AGS))
         ELSE parsed.version = Undefined

\* the buffers that declare TRAN on the first line, give the heading with
\* the version column on the second and have data rows only after it
TranInOrder(doc) ==
  /\ Len(doc) >= 2
  /\ doc[1] = GroupTran
  /\ doc[2] = HeadingAgs
  /\ \A k \in 3..Len(doc) : MatchKeyword(doc[k], KwDATA)

\* on these buffers the version is the last non-empty value of the column,
\* and there is none when no row has one
VersionIsLastNonEmptyValue ==
  (ev.op = "parse" /\ TranInOrder(text[ev.doc])) =>
    LET tran == MapGet(LastParse.groups, TRAN)
        values == SelectSeq([k \in 1..Len(tran.data) |-> FieldAt(tran.data[k], 1)],
                            LAMBDA v : v # Undefined)
    IN LastParse.version = IF values = <<>> THEN Undefined ELSE values[Len(values)]


\* the buffers on which the claim and the parser differ although the
\* heading precedes the rows: the last row has an empty version field, or
\* TRAN is declared again without rows
EmptyLastValueKeepsVersion ==
  /\ ev.op = "parse"
  /\ text[ev.doc] = << GroupTran, HeadingAgs,
                       Row(<<KwDATA, <<"1">>, <<"4">>>>), Row(<<KwDATA, <<"1">>, <<>>>>) >>
  /\ LastParse.version = <<"4">>

RedeclaredTranKeepsVersion ==
  /\ ev.op = "parse"
  /\ text[ev.doc] = << GroupTran, HeadingAgs,
                       Row(<<KwDATA, <<"1">>, <<"4">>>>), GroupTran >>
  /\ MapGet(LastParse.groups, TRAN).data = <<>>
  /\ LastParse.version = <<"4">>


(***************************************************************************)
(* Claims on permissive parsing                                            *)
(***************************************************************************)
MaxJunkLines == 4

\* a declaration, a heading, a type row and a data row (in lower case, with
\* blanks around it), a quoted row of no keyword, a data row without quotes
\* and a declaration whose name is no identifier
PermissiveLines ==
  { GroupA, HeadingX, Row(<<KwTYPE, <<"I","D">>>>),
    <<SPACE>> \o Row(<<<<"d","a","t","a">>, <<"1">>>>) \o <<SPACE>>,
    Row(<< <<"N","O","T","E">>, <<"1">> >>),
    <<"D","A","T","A",COMMA,"1">>,
    Row(<<KwGROUP, <<"-">>>>) }

PermissiveDocs == SeqsUpTo(PermissiveLines, MaxJunkLines) \ { <<>> }

NextPermissive ==
  \/ ParseBuffer

\* the parser applied to the buffers of up to MaxJunkLines of these lines
SpecPermissive == InitOn(PermissiveDocs) /\ [][NextPermissive]_vars

\* a line starts with one of the five quoted keywords
MatchesAKeyword(line) ==
  \E kw \in {KwGROUP, KwHEADING, KwUNIT, KwTYPE, KwDATA} : MatchKeyword(Trim(line), kw)

\* line k (1-based) of a buffer matches no keyword, or is a heading, unit,
\* type or data line with no declaration before it
IsDropped(doc, k) ==
  \/ ~MatchesAKeyword(doc[k])
  \/ /\ \E kw \in {KwHEADING, KwUNIT, KwTYPE, KwDATA} : MatchKeyword(Trim(doc[k]), kw)
     /\ \A j \in 1..(k - 1) : DeclaredName(doc[j]) = Undefined

Blanked(doc) == [k \in 1..Len(doc) |-> IF IsDropped(doc, k) THEN <<>> ELSE doc[k]]

\* C30: the parse of any buffer is defined, and it is the parse of the
\* buffer in which every line that matches no keyword and every heading,
\* unit, type or data line before the first declaration is blank.
DroppedLinesAreBlank ==
  ev.op = "parse" => LastParse = parseDocument(Blanked(text[ev.doc]))

\* C30 witness: a data line before the declaration, the declaration, a
\* line of no keyword and a data line; the group has the last line as its
\* one row
DroppedLinesAreBlankWitness ==
  /\ ev.op = "parse"
  /\ ev.doc = "d1"
  /\ Len(text["d1"]) = 4
  /\ MatchKeyword(Trim(text["d1"][1]), KwDATA)
  /\ text["d1"][2] = GroupA
  /\ ~MatchesAKeyword(text["d1"][3])
  /\ text["d1"][3] # <<>>
  /\ MatchKeyword(Trim(text["d1"][4]), KwDATA)
  /\ Blanked(text["d1"]) = << <<>>, GroupA, <<>>, text["d1"][4] >>
  /\ Len(LastParse.groups) = 1
  /\ LastParse.groups[1].line = 1
  /\ LastParse.groups[1].data = << << <<"1">> >> >>


(***************************************************************************)
(* Claims on the re-scan, the two-way sync and the frame of the handlers   *)
(***************************************************************************)
\* the line a Navigate resolved and moved the cursor to, -1 if none
ResolvedLine(out) ==
  IF Emitted(out, "cursor") = <<>> THEN -1 ELSE Emitted(out, "cursor")[1].line

\* C31: for a Navigate to a unit, type or data row of the active group, the
\* line the re-scan returns is the line the parser took that row of the
\* group from (none when the parser took no such row), whenever that line
\* is inside the window of the re-scan.
RescanAgreesWithParser ==
  [][ (/\ ev'.op = "navigate"
       /\ ev'.msg.rowType \in {"UNIT", "TYPE", "DATA"}
       /\ MapHas(CurrentParse.groups, currentGroup)) =>
        LET doc == text[currentDocument]
            group == MapGet(CurrentParse.groups, currentGroup)
            source == RowSource(doc, group, ev'.msg.rowType, ev'.msg.rowIndex)
        IN (source < group.line + group.dataCount + Slack) =>
             ResolvedLine(ev'.out) = source
    ]_vars


\* a block whose declaration is indented after a block that is not: the
\* parser trims the line and opens B, the re-scan reads the line as it is
Indented ==
  << GroupA, HeadingX,
     Row(<<KwDATA, <<"1">>>>),
     <<SPACE>> \o GroupB, HeadingX,
     Row(<<KwUNIT, <<"m">>>>),
     Row(<<KwDATA, <<"5">>>>) >>

\* the view on the buffer with the indented declaration, and on TwoBlocks
SpecIndented == InitOn({Indented, TwoBlocks}) /\ [][Next]_vars

\* the line an Edit-cell resolved and replaced a field of, -1 if none
EditedLine(out) ==
  IF Emitted(out, "edit") = <<>> THEN -1 ELSE Emitted(out, "edit")[1].line

\* C32: the line an Edit-cell or a Navigate resolves for the active group
\* lies at or after the declaration of the group and the group of that
\* line is the active group.
ResolvedLineInActiveGroup ==
  [][ (/\ ev'.op \in {"navigate", "cellEdit"}
       /\ MapHas(CurrentParse.groups, currentGroup)) =>
        \A line \in {ResolvedLine(ev'.out), EditedLine(ev'.out)} \ {-1} :
          /\ line >= MapGet(CurrentParse.groups, currentGroup).line
          /\ findGroupForLine(CurrentParse, line) # Null
          /\ findGroupForLine(CurrentParse, line)[1].name = currentGroup
    ]_vars


\* the highlight instruction that names the row of a Navigate message
HighlightOf(m) ==
  [t |-> "highlight", rowType |-> m.rowType,
   rowIndex |-> IF m.rowType = "DATA" THEN m.rowIndex ELSE 0]

\* C33: when a Navigate resolves a line and moves the cursor of the bound
\* buffer there, the Sync-from-cursor the move triggers leaves activeGroup
\* unchanged and emits the highlight instruction of the row kind and row
\* index of the Navigate.
NavigateSyncRoundTrip ==
  [][ (ev'.op = "navigate" /\ ResolvedLine(ev'.out) >= 0) =>
        /\ currentGroup' = currentGroup
        /\ Emitted(ev'.out, "highlight") # <<>>
        /\ \A k \in 1..Len(Emitted(ev'.out, "highlight")) :
             Emitted(ev'.out, "highlight")[k] = HighlightOf(ev'.msg)
    ]_vars

\* the same on the buffers made of well-formed blocks, for the click on a
\* row of the table rendered for a group
WellFormedSyncRoundTrip ==
  (ev.op = "navigate" /\ ResolvedLine(ev.out) >= 0) =>
    /\ Emitted(ev.out, "render") = <<>>
    /\ Emitted(ev.out, "highlight") = << HighlightOf(ev.msg) >>


\* a block with a unit row and three data rows
ThreeRows == Block(<<"A">>, TRUE, FALSE, 3)

\* An Edit-cell message posted by the webview for a cell of the table it
\* shows is handled after a change of the bound buffer: the user clears a
\* line, the listener of onDidChangeTextDocument runs, and the message,
\* posted before the new table reached the webview, is delivered.
StaleCellEdit ==
  \E m \in CellEditMessages :
    /\ WebviewReady
    /\ nEdits < MaxEdits
    /\ html.group = currentGroup
    /\ RenderedCell(html, m)
    /\ \E d \in {currentDocument} : \E l \in 0..(Len(text[d]) - 1) :
         /\ text[d][l + 1] # Blank
         /\ Becomes(Deliver(onDidChangeTextDocument(
                              [State EXCEPT !.text[d][l + 1] = Blank], d),
                            m, handlers),
                    "staleEdit", d, NoDoc, m)

NextStale ==
  \/ Next
  \/ StaleCellEdit

\* the view on a block of three data rows, with messages handled after a
\* change of the buffer
SpecStale == InitOn({ThreeRows}) /\ [][NextStale]_vars

\* the value the table shows at the address of a message: the oldValue the
\* webview puts into the Edit-cell message of that cell
ShownAt(content, m) ==
  LET r == CHOOSE r \in 1..Len(content.rows) :
             /\ content.rows[r].addressed
             /\ content.rows[r].rowType = m.rowType
             /\ content.rows[r].rowIndex = m.rowIndex
  IN content.rows[r].cells[m.colIndex + 1]

\* C34: an Edit-cell request for a cell of the table shown replaces a field
\* only if the content of the field when the request is handled is the
\* oldValue of the request (the value the table showed in the cell), also
\* when the buffer has changed since the table was rendered.  (A line the
\* change cleared has no field, so the field replaced has the content it
\* had before the change.)
EditOnlyIfOldValue ==
  [][ (/\ ev'.op \in {"cellEdit", "staleEdit"}
       /\ Emitted(ev'.out, "edit") # <<>>
       /\ html.group = currentGroup
       /\ RenderedCell(html, ev'.msg)) =>
        LET e == Emitted(ev'.out, "edit")[1]
        IN SubSeq(text[e.doc][e.line + 1], e.range[1] + 1, e.range[2])
             = ShownAt(html, ev'.msg)
    ]_vars


\* C35: when show completes while activeGroup is set and is a group of the
\* buffer the view is opened on, activeGroup is unchanged and the table
\* rendered is the table of that group, wherever the cursor is.
OpenKeepsActiveGroup ==
  [][ (/\ ev'.op = "show"
       /\ Emitted(ev'.out, "throw") = <<>>
       /\ currentGroup # Undefined
       /\ MapHas(parseDocument(text[ev'.doc]).groups, currentGroup)) =>
        /\ currentGroup' = currentGroup
        /\ html'.kind = "table"
        /\ html'.group = currentGroup
    ]_vars


(***************************************************************************)
(* Claims on the field-span locator                                        *)
(***************************************************************************)
\* the column indices of the requests (column -1 is the field of the
\* keyword)
SpanColumns == {-1, 0, 1, 2}

\* getCellRange called on a line of a buffer and a column index; what is
\* emitted is the result
CellRangeOfLine ==
  \E d \in Docs : \E l \in 0..(Len(text[d]) - 1) : \E c \in SpanColumns :
    /\ ev' = Event("span", d, NoDoc, NoMessage,
                   << [t |-> "span", line |-> l, colIndex |-> c,
                       range |-> getCellRange(text[d][l + 1], c)] >>)
    /\ UNCHANGED <<text, cursor, panel, handlers, awaiting, currentDocument,
                   currentGroup, html, cache, nEdits, closed>>

NextSpan ==
  \/ CellRangeOfLine

\* the locator applied to the lines of up to MaxChars characters
SpecSpan == InitOn(ExtractDocs) /\ [][NextSpan]_vars

\* C36: for any line and column index, getCellRange returns a span if and
\* only if extractQuotedFields yields a field at index columnIndex + 1, and
\* the text of the span is that field.
SpanAgreesWithExtractor ==
  ev.op = "span" =>
    LET line == text[ev.doc][ev.out[1].line + 1]
        fields == extractQuotedFields(line)
        index == ev.out[1].colIndex + 1
        range == ev.out[1].range
    IN /\ (range # Null) <=> (index >= 0 /\ index < Len(fields))
       /\ range # Null =>
            SubSeq(line, range[1] + 1, range[2]) = fields[index + 1]

\* the same on the lines with an even number of double quotes
SpanAgreesOnPairedQuotes ==
  (ev.op = "span" /\ Len(QuotesOf(text[ev.doc][ev.out[1].line + 1])) % 2 = 0) =>
    LET line == text[ev.doc][ev.out[1].line + 1]
        fields == extractQuotedFields(line)
        index == ev.out[1].colIndex + 1
        range == ev.out[1].range
    IN /\ (range # Null) <=> (index >= 0 /\ index < Len(fields))
       /\ range # Null =>
            SubSeq(line, range[1] + 1, range[2]) = fields[index + 1]


(***************************************************************************)
(* Claims on declarations without a name                                   *)
(***************************************************************************)
\* the first field of the line is the keyword GROUP and the second one is
\* missing or is no identifier
NamelessDeclaration(line) ==
  /\ MatchKeyword(Trim(line), KwGROUP)
  /\ LET fields == extractQuotedFields(Trim(line))
     IN \/ Len(fields) < 2
        \/ fields[2] = <<>>
        \/ \E k \in 1..Len(fields[2]) : ~IsIdentChar(fields[2][k])

\* the state of the loop of parseDocument before line k (1-based) of a buffer
LoopStateBefore(doc, k) ==
  ParseFrom([groups |-> <<>>, currentGroup |-> Undefined, version |-> Undefined],
            SubSeq(doc, 1, k - 1), 0)

\* C37: a line whose first field is the keyword GROUP and whose second
\* field is no identifier leaves the state of the parser as it is (the
\* current group and the mapping are unchanged), so that the parse of the
\* buffer is the parse of the buffer with that line empty: the rows after
\* it go to the group opened before it.
NamelessDeclarationIsSkipped ==
  ev.op = "parse" =>
    \A k \in 1..Len(text[ev.doc]) :
      NamelessDeclaration(text[ev.doc][k]) =>
        /\ ParseLine(LoopStateBefore(text[ev.doc], k), text[ev.doc][k], k - 1)
             = LoopStateBefore(text[ev.doc], k)
        /\ LastParse = parseDocument([text[ev.doc] EXCEPT ![k] = <<>>])

\* C37 (witness): a declaration of A, a GROUP line whose second field is a
\* dash and a data row have been parsed: the row is the one of A
NamelessDeclarationParsed ==
  /\ ev.op = "parse"
  /\ text[ev.doc] = << GroupA, Row(<<KwGROUP, <<"-">>>>),
                       <<SPACE>> \o Row(<<<<"d","a","t","a">>, <<"1">>>>) \o <<SPACE>> >>
  /\ NamelessDeclaration(text[ev.doc][2])
  /\ Len(LastParse.groups) = 1
  /\ MapGet(LastParse.groups, <<"A">>).data = << << <<"1">> >> >>


(***************************************************************************)
(* Claims on the events the view ignores                                   *)
(***************************************************************************)
\* C38: a change of the selection while the view is closed, or in the
\* editor of a buffer other than the one the view is bound to, changes
\* neither the active group nor the bound buffer nor the page, and nothing
\* is rendered or highlighted; a change of the text of a buffer while the
\* view is closed changes neither the active group nor the bound buffer,
\* and nothing is rendered.
IgnoredEventsChangeNothing ==
  [][ /\ (/\ ev'.op = "selection"
          /\ (~panel \/ currentDocument = NoDoc \/ ev'.doc # currentDocument)) =>
            /\ currentGroup' = currentGroup
            /\ currentDocument' = currentDocument
            /\ html' = html
            /\ panel' = panel
            /\ Emitted(ev'.out, "render") = <<>>
            /\ Emitted(ev'.out, "highlight") = <<>>
      /\ (ev'.op = "change" /\ ~panel) =>
            /\ currentGroup' = currentGroup
            /\ currentDocument' = currentDocument
            /\ html' = html
            /\ panel' = panel
            /\ Emitted(ev'.out, "render") = <<>>
    ]_vars

\* C38 (witness): the view is closed, bound to a buffer and with an active
\* group, and the cursor of the editor of that buffer has just moved to a
\* line of another group
SelectionWhileClosed ==
  /\ ev.op = "selection"
  /\ ~panel
  /\ ev.doc = currentDocument
  /\ currentGroup # Undefined
  /\ findGroupForLine(parseDocument(text[ev.doc]), cursor[ev.doc]) # Null
  /\ findGroupForLine(parseDocument(text[ev.doc]), cursor[ev.doc])[1].name # currentGroup
  /\ ev.out = <<>>

\* the view is open and the cursor of the editor of another buffer has just
\* moved to a line of a group that is not the active one
SelectionInOtherBuffer ==
  /\ ev.op = "selection"
  /\ panel
  /\ currentDocument # NoDoc
  /\ ev.doc # currentDocument
  /\ html.kind = "table"
  /\ findGroupForLine(parseDocument(text[ev.doc]), cursor[ev.doc]) # Null
  /\ findGroupForLine(parseDocument(text[ev.doc]), cursor[ev.doc])[1].name # currentGroup
  /\ ev.out = <<>>

\* the view is closed with an active group and a line of the bound buffer
\* has just been cleared
ChangeWhileClosed ==
  /\ ev.op = "change"
  /\ ~panel
  /\ ev.doc = currentDocument
  /\ currentGroup # Undefined
  /\ ev.out = <<>>

=============================================================================
